---------------------------- MODULE Spec2Model ----------------------------
(***************************************************************************)
(* A model of the Dome fee-escrow SDK: order identifiers                   *)
(* (escrow/order_id.py), fee authorizations and their EIP-712 signatures   *)
(* (escrow/signing.py), the fee arithmetic (escrow/utils.py) and the       *)
(* escrow router's place_order flow (router/polymarket_escrow.py).         *)
(*                                                                         *)
(* Representation of values.                                               *)
(*  - A string that is meant to be an address is a record                  *)
(*    [acct, form]: the 20-byte account it spells and the way it is        *)
(*    spelled (checksummed, lower case, upper case, without the 0x prefix, *)
(*    mixed case with a wrong checksum, too short, or not hex at all).     *)
(*  - A price is an integer number of 1/PRICE_SCALE, a share size an       *)
(*    integer number of 1/SIZE_SCALE shares (Python floats in the code).   *)
(*  - Keccak-256 and ABI encoding are taken as injective: a hash is        *)
(*    represented by the tuple that was encoded.                           *)
(*  - A call's outcome is a record [exc, msg, value]: exc = "none" when    *)
(*    the call returned value, otherwise the class of the exception raised *)
(*    and msg the start of its message.                                    *)
(***************************************************************************)
EXTENDS Integers, Sequences, FiniteSets, TLC

VARIABLES
    fn,        \* library specifications: the function that was applied ("none" before)
    args,      \* library specifications: the inputs drawn at Init
    result,    \* library specifications: the outcome of the call
    clock,     \* the wall clock, in milliseconds (time.time() * 1000)
    router,    \* orchestrator state: api_key, _escrow_config, _user_credentials, _user_safe_addresses
    runs,      \* one record per place_order invocation: its position and locals
    wire       \* the requests handed to the transport, in order

vars == <<fn, args, result, clock, router, runs, wire>>

-----------------------------------------------------------------------------
(* Program constants *)

\* signing.py: MIN_DEADLINE_SECONDS / MAX_DEADLINE_SECONDS
MIN_DEADLINE_SECONDS == 60
MAX_DEADLINE_SECONDS == 86400

\* order_id.py: round(params.price * 10000); utils.py: (order_size * fee_bps) // 10000
BPS_DENOMINATOR == 10000

\* utils.py: parse_usdc multiplies by 1_000_000 (6 decimals)
USDC_UNIT == 1000000

\* A price p stands for the float p / PRICE_SCALE, a size s for s / SIZE_SCALE shares.
PRICE_SCALE == 100000
SIZE_SCALE == 100

\* time.time() is in seconds: one second is 1000 clock units
MS_PER_SECOND == 1000

-----------------------------------------------------------------------------
(* Outcomes of calls *)

Null == [null |-> TRUE]

Return(v) == [exc |-> "none", msg |-> "", value |-> v]

Raise(e, m) == [exc |-> e, msg |-> m, value |-> Null]

Returned(r) == r.exc = "none"

-----------------------------------------------------------------------------
(* Addresses: eth_utils.is_address / to_checksum_address, str.lower *)

Accounts == {"alice", "bob", "escrow", "affiliate", "zero"}

ValidForms == {"checksum", "lower", "upper", "noprefix"}

InvalidForms == {"badchecksum", "short", "nothex"}

Addr(a, f) == [acct |-> a, form |-> f]

\* eth_utils.is_address: a 40-digit hex string, the 0x prefix optional; a mixed-case
\* spelling must carry the right checksum.
is_address(s) == s.form \in ValidForms

\* eth_utils.to_checksum_address: the canonical mixed-case spelling of the account.
to_checksum_address(s) == Addr(s.acct, "checksum")

\* str.lower() on an address string: the case is lost, the prefix and length are not.
addr_lower(s) ==
    CASE s.form \in {"checksum", "lower", "upper", "badchecksum"} -> Addr(s.acct, "lower")
      [] OTHER -> s


-----------------------------------------------------------------------------
(* Python arithmetic *)

\* round(n / d) for d > 0: Python's round() goes to the nearest integer, and to the
\* even one from a tie.
py_round(n, d) ==
    LET q == n \div d
        r == n % d
    IN  IF 2 * r < d THEN q
        ELSE IF 2 * r > d THEN q + 1
        ELSE IF q % 2 = 0 THEN q ELSE q + 1

\* int(n / d) for d > 0: Python's int() truncates toward zero.
py_int(n, d) == IF n >= 0 THEN n \div d ELSE -((-n) \div d)

-----------------------------------------------------------------------------
(* escrow/order_id.py *)

\* A hex string "0x" + digest.hex(): the digest it spells and the case of its letters.
\* kind "none" is a value that is no string (None), kind "text" a string that is no hash.
HexLower(d) == [kind |-> "hex", digest |-> d, case |-> "lower"]

NotAString == [kind |-> "none", digest |-> <<>>, case |-> "lower"]

OtherText == [kind |-> "text", digest |-> <<>>, case |-> "lower"]

str_lower(s) == [s EXCEPT !.case = "lower"]

str_upper(s) == [s EXCEPT !.case = "upper"]

\* eth_abi.encode of (uint256, address, string, string, uint256, uint256, uint256):
\* a uint256 must not be negative.
encode(values) ==
    IF values[1] < 0 \/ values[5] < 0 \/ values[6] < 0 \/ values[7] < 0
    THEN Raise("EncodingError", "uint256 out of range")
    ELSE Return(values)

\* round(params.price * 10000): the price in basis points.
price_bps(price) == py_round(price * BPS_DENOMINATOR, PRICE_SCALE)

generate_order_id_no_price_check(params) ==
    IF ~is_address(params.user_address)
    THEN Raise("ValueError", "Invalid user_address")
    ELSE LET encoded == encode(<<params.chain_id,
                                 to_checksum_address(params.user_address),
                                 params.market_id,
                                 params.side,
                                 params.size,
                                 price_bps(params.price),
                                 params.timestamp>>)
         IN  IF Returned(encoded) THEN Return(HexLower(encoded.value)) ELSE encoded

generate_order_id_no_timestamp(params) ==
    IF params.price < 0 \/ params.price > PRICE_SCALE
    THEN Raise("ValueError", "Invalid price")
    ELSE IF ~is_address(params.user_address)
    THEN Raise("ValueError", "Invalid user_address")
    ELSE LET encoded == encode(<<params.chain_id,
                                 to_checksum_address(params.user_address),
                                 params.market_id,
                                 params.side,
                                 params.size,
                                 price_bps(params.price),
                                 0>>)
         IN  IF Returned(encoded) THEN Return(HexLower(encoded.value)) ELSE encoded

generate_order_id(params) ==
    IF params.price < 0 \/ params.price > PRICE_SCALE
    THEN Raise("ValueError", "Invalid price")
    ELSE IF ~is_address(params.user_address)
    THEN Raise("ValueError", "Invalid user_address")
    ELSE LET encoded == encode(<<params.chain_id,
                                 to_checksum_address(params.user_address),
                                 params.market_id,
                                 params.side,
                                 params.size,
                                 price_bps(params.price),
                                 params.timestamp>>)
         IN  IF Returned(encoded) THEN Return(HexLower(encoded.value)) ELSE encoded

verify_order_id_propagating(order_id, params) ==
    LET reconstructed == generate_order_id(params)
    IN  IF ~Returned(reconstructed) THEN reconstructed
        ELSE IF order_id.kind = "none" THEN Raise("AttributeError", "lower")
        ELSE Return(str_lower(reconstructed.value) = str_lower(order_id))

verify_order_id_case_sensitive(order_id, params) ==
    LET reconstructed == generate_order_id(params)
    IN  IF ~Returned(reconstructed) THEN Return(FALSE)
        ELSE IF order_id.kind = "none" THEN Return(FALSE)
        ELSE Return(reconstructed.value = order_id)

\* try: reconstructed.lower() == order_id.lower()   except Exception: return False
verify_order_id(order_id, params) ==
    LET reconstructed == generate_order_id(params)
    IN  IF ~Returned(reconstructed) THEN Return(FALSE)
        ELSE IF order_id.kind = "none" THEN Return(FALSE)
        ELSE Return(str_lower(reconstructed.value) = str_lower(order_id))

-----------------------------------------------------------------------------
(* escrow/utils.py *)

ZERO_ADDRESS == [acct |-> "zero", form |-> "lower"]

ESCROW_CONTRACT_POLYGON == [acct |-> "escrow", form |-> "checksum"]

calculate_fee_rounding_up(order_size, fee_bps) ==
    (order_size * fee_bps + BPS_DENOMINATOR - 1) \div BPS_DENOMINATOR

\* (order_size * fee_bps) // 10000: Python's // is floor division, as \div is.
calculate_fee(order_size, fee_bps) == (order_size * fee_bps) \div BPS_DENOMINATOR

\* int(amount * 1_000_000), the amount being amount_num / amount_den with amount_den
\* a multiple of USDC_UNIT (the common factor is cancelled before dividing).
parse_usdc(amount_num, amount_den) == py_int(amount_num, amount_den \div USDC_UNIT)

\* parse_usdc(size * price), size in 1/SIZE_SCALE shares and price in 1/PRICE_SCALE.
calculate_order_size_usdc(size, price) ==
    parse_usdc(size * price, SIZE_SCALE * PRICE_SCALE)

-----------------------------------------------------------------------------
(* escrow/signing.py *)

\* int(time.time()) when the clock shows time_ms milliseconds
unix_seconds(time_ms) == time_ms \div MS_PER_SECOND

create_eip712_domain(escrow_address, chain_id) ==
    IF ~is_address(escrow_address)
    THEN Raise("ValueError", "Invalid escrow address")
    ELSE Return([name |-> "DomeFeeEscrow",
                 version |-> "1",
                 chainId |-> chain_id,
                 verifyingContract |-> to_checksum_address(escrow_address)])

FeeAuthorization(order_id, payer, fee_amount, deadline) ==
    [order_id |-> order_id, payer |-> payer, fee_amount |-> fee_amount,
     deadline |-> deadline]

create_fee_authorization_no_upper_bound(order_id, payer, fee_amount, deadline_seconds, time_ms) ==
    IF ~is_address(payer)
    THEN Raise("ValueError", "Invalid payer address")
    ELSE IF deadline_seconds < MIN_DEADLINE_SECONDS
    THEN Raise("ValueError", "Deadline too short")
    ELSE Return(FeeAuthorization(order_id, to_checksum_address(payer), fee_amount,
                                 unix_seconds(time_ms) + deadline_seconds))

create_fee_authorization(order_id, payer, fee_amount, deadline_seconds, time_ms) ==
    IF ~is_address(payer)
    THEN Raise("ValueError", "Invalid payer address")
    ELSE IF deadline_seconds < MIN_DEADLINE_SECONDS
    THEN Raise("ValueError", "Deadline too short")
    ELSE IF deadline_seconds > MAX_DEADLINE_SECONDS
    THEN Raise("ValueError", "Deadline too long")
    ELSE Return(FeeAuthorization(order_id, to_checksum_address(payer), fee_amount,
                                 unix_seconds(time_ms) + deadline_seconds))

\* The EIP-712 digest of the FeeAuthorization struct under the domain
\* (eth_account encode_typed_data / sign_typed_data): orderId must be a bytes32 value,
\* payer an address, feeAmount and deadline uint256. Hashing is taken as injective: the
\* digest is the tuple of the encoded values, an address by the account it denotes.
eip712_digest(domain, message) ==
    IF \/ message.orderId.kind # "hex"
       \/ ~is_address(message.payer)
       \/ message.feeAmount < 0
       \/ message.deadline < 0
       \/ domain.chainId < 0
    THEN Raise("EncodingError", "typed data")
    ELSE Return(<<domain.name, domain.version, domain.chainId,
                  domain.verifyingContract.acct,
                  message.orderId.digest, message.payer.acct,
                  message.feeAmount, message.deadline>>)

PrivateKeys == {"keyA", "keyB"}

\* Account.from_key(private_key).address
key_address(private_key) ==
    Addr(IF private_key = "keyA" THEN "alice" ELSE "bob", "checksum")

\* A signature string: the hex of a 65-byte signature by a key over a digest, with or
\* without the 0x prefix; or a string that is no such thing.
SignatureHex(private_key, digest) ==
    [kind |-> "sig", key |-> private_key, digest |-> digest, prefix |-> FALSE]

BadSignature(kind) == [kind |-> kind, key |-> "", digest |-> <<>>, prefix |-> FALSE]

SignedFeeAuthorization(fee_auth, signature) ==
    [order_id |-> fee_auth.order_id, payer |-> fee_auth.payer,
     fee_amount |-> fee_auth.fee_amount, deadline |-> fee_auth.deadline,
     signature |-> signature]

MessageOf(auth) ==
    [orderId |-> auth.order_id, payer |-> auth.payer,
     feeAmount |-> auth.fee_amount, deadline |-> auth.deadline]

sign_fee_authorization(private_key, escrow_address, fee_auth, chain_id) ==
    LET domain == create_eip712_domain(escrow_address, chain_id)
    IN  IF ~Returned(domain) THEN domain
        ELSE LET digest == eip712_digest(domain.value, MessageOf(fee_auth))
             IN  IF ~Returned(digest) THEN digest
                 ELSE Return(SignedFeeAuthorization(
                                 fee_auth, SignatureHex(private_key, digest.value)))

\* Account.recover_message: the signer's address when the signature is over this
\* digest, an unrelated address when it is over another one.
recover_message(digest, signature) ==
    IF signature.digest = digest
    THEN key_address(signature.key)
    ELSE Addr("unrelated", "checksum")

\* A variant that compares the addresses as they are spelled
recover_and_compare_case_sensitive(domain, signed_auth, expected_signer) ==
    LET digest == eip712_digest(domain, MessageOf(signed_auth))
    IN  IF ~Returned(digest) THEN digest
        ELSE IF signed_auth.signature.kind = "none"
        THEN Raise("AttributeError", "startswith")
        ELSE IF signed_auth.signature.kind = "badhex"
        THEN Raise("ValueError", "non-hexadecimal number")
        ELSE IF signed_auth.signature.kind # "sig"
        THEN Raise("ValidationError", "signature length")
        ELSE IF expected_signer.form = "notastring"
        THEN Raise("AttributeError", "lower")
        ELSE Return(recover_message(digest.value, signed_auth.signature) = expected_signer)

\* The body of the try block of verify_fee_authorization_signature
recover_and_compare(domain, signed_auth, expected_signer) ==
    LET digest == eip712_digest(domain, MessageOf(signed_auth))
    IN  IF ~Returned(digest) THEN digest
        ELSE IF signed_auth.signature.kind = "none"
        THEN Raise("AttributeError", "startswith")
        ELSE IF signed_auth.signature.kind = "badhex"
        THEN Raise("ValueError", "non-hexadecimal number")
        ELSE IF signed_auth.signature.kind # "sig"
        THEN Raise("ValidationError", "signature length")
        ELSE IF expected_signer.form = "notastring"
        THEN Raise("AttributeError", "lower")
        ELSE Return(addr_lower(recover_message(digest.value, signed_auth.signature))
                        = addr_lower(expected_signer))

\* domain = create_eip712_domain(...) runs before the try block;
\* try: <recover and compare>   except Exception: return False
verify_fee_authorization_signature(signed_auth, escrow_address, chain_id, expected_signer) ==
    LET domain == create_eip712_domain(escrow_address, chain_id)
    IN  IF ~Returned(domain) THEN domain
        ELSE LET compared == recover_and_compare(domain.value, signed_auth, expected_signer)
             IN  IF Returned(compared) THEN compared ELSE Return(FALSE)

-----------------------------------------------------------------------------
(* The state the library specifications leave alone: an orchestrator that was *)
(* never constructed, no placement, nothing on the wire.                      *)

NoRouter == [constructed |-> FALSE]

LibraryFrame ==
    /\ router = NoRouter
    /\ runs = <<>>
    /\ wire = <<>>

LibraryUnchanged == UNCHANGED <<args, clock, router, runs, wire>>

-----------------------------------------------------------------------------
(* SpecOrderId: generate_order_id and verify_order_id applied to drawn inputs *)

OrderAddresses ==
    {Addr("alice", f) : f \in ValidForms \cup InvalidForms} \cup {Addr("bob", "checksum")}

OrderSizes == {-1, 0, 1000000}

\* -0.00001, 0, 0.00004, 0.00006, 0.65, 0.65004, 0.65006, 1, 1.00001, 1.5
OrderPrices == {-1, 0, 4, 6, 65000, 65004, 65006, 100000, 100001, 150000}

OrderChains == {137, 1}

OrderMarkets == {"12345", "67890"}

OrderSides == {"buy", "sell"}

OrderTimestamps == {17000, 17001}

BaseOrderParams ==
    [user_address : OrderAddresses,
     market_id : {"12345"},
     side : OrderSides,
     size : OrderSizes,
     price : OrderPrices,
     timestamp : {17000},
     chain_id : {137}]

\* p itself and every params that differs from p in one field
OneFieldChanges(p) ==
    {p}
    \cup {[p EXCEPT !.user_address = v] : v \in OrderAddresses}
    \cup {[p EXCEPT !.market_id = v] : v \in OrderMarkets}
    \cup {[p EXCEPT !.side = v] : v \in OrderSides}
    \cup {[p EXCEPT !.size = v] : v \in OrderSizes}
    \cup {[p EXCEPT !.price = v] : v \in OrderPrices}
    \cup {[p EXCEPT !.timestamp = v] : v \in OrderTimestamps}
    \cup {[p EXCEPT !.chain_id = v] : v \in OrderChains}

\* How the identifier handed to verify_order_id is spelled: as generate_order_id
\* returned it, in upper case, or not an identifier of p1 at all.
IdentifierSpellings == {"returned", "upper", "none", "text"}

InitOrderId ==
    /\ fn = "none"
    /\ \E p1 \in BaseOrderParams :
         \E p2 \in OneFieldChanges(p1) :
           \E sp \in IdentifierSpellings :
             args = [p1 |-> p1, p2 |-> p2, spelling |-> sp]
    /\ result = [id1 |-> Null, id2 |-> Null, ok |-> Null]
    /\ clock = 0
    /\ LibraryFrame

\* generate_order_id(p1) and generate_order_id(p2)
GenerateOrderIds ==
    /\ fn = "none"
    /\ fn' = "generate_order_id"
    /\ result' = [result EXCEPT !.id1 = generate_order_id(args.p1),
                                !.id2 = generate_order_id(args.p2)]
    /\ LibraryUnchanged

\* The identifier the caller hands to verify_order_id
GivenIdentifier ==
    CASE args.spelling = "returned" /\ Returned(result.id1) -> result.id1.value
      [] args.spelling = "upper" /\ Returned(result.id1) -> str_upper(result.id1.value)
      [] args.spelling = "none" -> NotAString
      [] OTHER -> OtherText

\* verify_order_id(<identifier>, p2)
VerifyOrderId ==
    /\ fn = "generate_order_id"
    /\ fn' = "verify_order_id"
    /\ result' = [result EXCEPT !.ok = verify_order_id(GivenIdentifier, args.p2)]
    /\ LibraryUnchanged

NextOrderId == GenerateOrderIds \/ VerifyOrderId

SpecOrderId == InitOrderId /\ [][NextOrderId]_vars

ValidOrderParams(p) ==
    /\ p.price >= 0 /\ p.price <= PRICE_SCALE
    /\ is_address(p.user_address)
    /\ p.size >= 0 /\ p.chain_id >= 0 /\ p.timestamp >= 0

\* The identifier given to verify_order_id is the one generate_order_id(p1) returned,
\* in either letter case.
IdentifierOfP1 == args.spelling \in {"returned", "upper"} /\ Returned(result.id1)

\* C2: verify_order_id never raises: whatever the identifier and the params, the call
\* returns a boolean, and it returns false for params that generate_order_id rejects.
C2_VerifyOrderIdNeverRaises ==
    fn = "verify_order_id" =>
        /\ Returned(result.ok)
        /\ result.ok.value \in BOOLEAN
        /\ (~Returned(result.id2) => result.ok.value = FALSE)

C2_Witness ==
    /\ fn = "verify_order_id"
    /\ args.p2.price > PRICE_SCALE
    /\ ~is_address(args.p2.user_address)
    /\ result.id2 = Raise("ValueError", "Invalid price")
    /\ result.ok = Return(FALSE)

\* The number of fields in which two params differ; two spellings of one account are
\* the same user account.
FieldsChanged(p1, p2) ==
    (IF p1.chain_id # p2.chain_id THEN 1 ELSE 0)
    + (IF p1.user_address.acct # p2.user_address.acct THEN 1 ELSE 0)
    + (IF p1.market_id # p2.market_id THEN 1 ELSE 0)
    + (IF p1.side # p2.side THEN 1 ELSE 0)
    + (IF p1.size # p2.size THEN 1 ELSE 0)
    + (IF p1.price # p2.price THEN 1 ELSE 0)
    + (IF p1.timestamp # p2.timestamp THEN 1 ELSE 0)

\* C3 as stated: valid params that differ in exactly one field have different
\* identifiers, and the identifier of the one does not verify against the other.
C3_AnyFieldChangeChangesId ==
    (/\ fn # "none"
     /\ ValidOrderParams(args.p1) /\ ValidOrderParams(args.p2)
     /\ FieldsChanged(args.p1, args.p2) = 1)
    => /\ result.id1.value # result.id2.value
       /\ (fn = "verify_order_id" /\ IdentifierOfP1 => result.ok = Return(FALSE))

\* C3 amended: valid params that differ in exactly one field, a price counting as
\* different when it differs after rounding to basis points (round(price * 10000)),
\* have different identifiers, and the identifier of the one does not verify against
\* the other.
C3_FieldChangeChangesId ==
    (/\ fn # "none"
     /\ ValidOrderParams(args.p1) /\ ValidOrderParams(args.p2)
     /\ FieldsChanged(args.p1, args.p2) = 1
     /\ (args.p1.price # args.p2.price
            => price_bps(args.p1.price) # price_bps(args.p2.price)))
    => /\ Returned(result.id1) /\ Returned(result.id2)
       /\ result.id1.value # result.id2.value
       /\ (fn = "verify_order_id" /\ IdentifierOfP1 => result.ok = Return(FALSE))

\* p1 and p2 differ by one millisecond of timestamp only, and the identifier of p1 was
\* verified against p2.
C3_Witness ==
    /\ fn = "verify_order_id"
    /\ ValidOrderParams(args.p1) /\ ValidOrderParams(args.p2)
    /\ FieldsChanged(args.p1, args.p2) = 1
    /\ args.p2.timestamp = args.p1.timestamp + 1
    /\ args.spelling = "upper"
    /\ result.id1.value # result.id2.value
    /\ result.ok = Return(FALSE)

\* C4: round trip: for valid params p, the identifier generate_order_id(p) returned
\* verifies against p, in the letter case it was returned in and in another one.
C4_RoundTrip ==
    (/\ fn = "verify_order_id"
     /\ ValidOrderParams(args.p1)
     /\ args.p2 = args.p1
     /\ args.spelling \in {"returned", "upper"})
    => /\ Returned(result.id1)
       /\ result.ok = Return(TRUE)

C4_Witness ==
    /\ fn = "verify_order_id"
    /\ ValidOrderParams(args.p1)
    /\ args.p2 = args.p1
    /\ args.spelling = "upper"
    /\ GivenIdentifier # result.id1.value
    /\ result.ok = Return(TRUE)

-----------------------------------------------------------------------------
(* SpecFeeAuth: create_fee_authorization applied to drawn inputs *)

SomeOrderId ==
    HexLower(<<137, Addr("alice", "checksum"), "12345", "buy", 1000000, 6500, 17000>>)

FeeAmounts == {-1, 0, 2500}

DeadlineSeconds == {0, 30, 59, 60, 61, 3600, 86399, 86400, 86401, 100000}

ClockValues == {0, 999, 1000, 5500}

InitFeeAuth ==
    /\ fn = "none"
    /\ \E payer \in OrderAddresses, fee \in FeeAmounts, ds \in DeadlineSeconds :
         args = [order_id |-> SomeOrderId, payer |-> payer, fee_amount |-> fee,
                 deadline_seconds |-> ds]
    /\ result = Null
    /\ clock \in ClockValues
    /\ LibraryFrame

CreateFeeAuthorization ==
    /\ fn = "none"
    /\ fn' = "create_fee_authorization"
    /\ result' = create_fee_authorization(args.order_id, args.payer, args.fee_amount,
                                          args.deadline_seconds, clock)
    /\ LibraryUnchanged

NextFeeAuth == CreateFeeAuthorization

SpecFeeAuth == InitFeeAuth /\ [][NextFeeAuth]_vars

\* C7: with a well-formed payer, create_fee_authorization raises "too short" exactly
\* when deadline_seconds < 60 and "too long" exactly when deadline_seconds > 86400;
\* otherwise it returns an authorization whose deadline is the current unix second plus
\* deadline_seconds, hence in [now + 60, now + 86400] and after now.
C7_DeadlineBounds ==
    (fn = "create_fee_authorization" /\ is_address(args.payer)) =>
        LET now == unix_seconds(clock)
            ds == args.deadline_seconds
        IN  /\ (ds < 60) <=> (result = Raise("ValueError", "Deadline too short"))
            /\ (ds > 86400) <=> (result = Raise("ValueError", "Deadline too long"))
            /\ (ds >= 60 /\ ds <= 86400) <=> Returned(result)
            /\ Returned(result) =>
                 /\ result.value.deadline = now + ds
                 /\ result.value.deadline >= now + 60
                 /\ result.value.deadline <= now + 86400
                 /\ result.value.deadline > now

C7_Witness ==
    /\ fn = "create_fee_authorization"
    /\ args.deadline_seconds = 86400
    /\ clock = 5500
    /\ Returned(result)
    /\ result.value.deadline = 86405
    /\ result.value.payer = to_checksum_address(args.payer)

-----------------------------------------------------------------------------
(* SpecFee: calculate_fee applied to drawn inputs *)

FeeOrderSizes == {0, 1, 399, 400, 401, 9999, 10000, 10001, 39999, 40000, 123456, 200000}

FeeBps == {0, 1, 24, 25, 100, 9999, 10000}

FeeExamples == {<<1000000, 25>>, <<10000000, 100>>, <<65000000, 25>>}

InitFee ==
    /\ fn = "none"
    /\ \E pair \in (FeeOrderSizes \X FeeBps) \cup FeeExamples :
         args = [order_size |-> pair[1], fee_bps |-> pair[2]]
    /\ result = Null
    /\ clock = 0
    /\ LibraryFrame

CalculateFee ==
    /\ fn = "none"
    /\ fn' = "calculate_fee"
    /\ result' = Return(calculate_fee(args.order_size, args.fee_bps))
    /\ LibraryUnchanged

NextFee == CalculateFee

SpecFee == InitFee /\ [][NextFee]_vars

\* C10: for non-negative order_size and fee_bps, calculate_fee is the floor of
\* order_size * fee_bps / 10000: fee * 10000 <= order_size * fee_bps < (fee + 1) * 10000,
\* so 0 <= fee <= order_size when fee_bps <= 10000; (1000000, 25) gives 2500 and
\* (10000000, 100) gives 100000.
C10_FeeIsFloor ==
    (fn = "calculate_fee" /\ args.order_size >= 0 /\ args.fee_bps >= 0) =>
        LET fee == result.value
            product == args.order_size * args.fee_bps
        IN  /\ fee * 10000 <= product
            /\ product - fee * 10000 < 10000
            /\ (args.fee_bps <= 10000 => fee >= 0 /\ fee <= args.order_size)
            /\ (args.order_size = 1000000 /\ args.fee_bps = 25 => fee = 2500)
            /\ (args.order_size = 10000000 /\ args.fee_bps = 100 => fee = 100000)

\* a product that is no multiple of 10000: the division rounds down
C10_Witness ==
    /\ fn = "calculate_fee"
    /\ args.order_size = 399 /\ args.fee_bps = 25
    /\ result = Return(0)

-----------------------------------------------------------------------------
(* SpecSize: calculate_order_size_usdc applied to drawn inputs *)

\* Share sizes, in 1/SIZE_SCALE: 0, 0.01, 1, 9.99, 10, 10.01, 10.53, 10.55, 25, 100, 100.01
OrderShareSizes == {0, 1, 100, 999, 1000, 1001, 1053, 1055, 2500, 10000, 10001}

\* Prices per share, in 1/PRICE_SCALE: 0 to 1, with up to five decimal places
SharePrices == {0, 1, 5, 1000, 50000, 57000, 65000, 65004, 65005, 65006, 99999, 100000}

InitSize ==
    /\ fn = "none"
    /\ \E size \in OrderShareSizes, price \in SharePrices :
         args = [size |-> size, price |-> price]
    /\ result = Null
    /\ clock = 0
    /\ LibraryFrame

CalculateOrderSizeUsdc ==
    /\ fn = "none"
    /\ fn' = "calculate_order_size_usdc"
    /\ result' = Return(calculate_order_size_usdc(args.size, args.price))
    /\ LibraryUnchanged

NextSize == CalculateOrderSizeUsdc

SpecSize == InitSize /\ [][NextSize]_vars

\* C11: calculate_order_size_usdc(size, price) is size * price * 10^6 rounded to the
\* nearest integer, for every size and price, products with more than 6 decimal places
\* included; (10, 0.50) gives 5000000 and (100, 0.65) gives 65000000.
C11_OrderSizeIsRounded ==
    fn = "calculate_order_size_usdc" =>
        LET product == args.size * args.price
            unit == (SIZE_SCALE * PRICE_SCALE) \div USDC_UNIT
            nearest == py_round(product, unit)
        IN  /\ result.value = nearest
            /\ 2 * (product - result.value * unit) <= unit
            /\ 2 * (result.value * unit - product) <= unit
            /\ (args.size = 1000 /\ args.price = 50000 => result.value = 5000000)
            /\ (args.size = 10000 /\ args.price = 65000 => result.value = 65000000)

\* What the code computes: the product truncated toward zero
OrderSizeIsTruncated ==
    fn = "calculate_order_size_usdc" =>
        LET product == args.size * args.price
            unit == (SIZE_SCALE * PRICE_SCALE) \div USDC_UNIT
        IN  /\ result.value * unit <= product
            /\ product - result.value * unit < unit

-----------------------------------------------------------------------------
(* SpecSignature: sign_fee_authorization, then verify_fee_authorization_signature *)

\* FeeAuthorization values, as create_fee_authorization returns them or as a caller
\* builds the dataclass
DrawnFeeAuths ==
    [order_id : {SomeOrderId, OtherText},
     payer : {Addr("alice", "checksum"), Addr("alice", "badchecksum")},
     fee_amount : {2500, -1},
     deadline : {3600}]

SigningEscrowAddresses ==
    {ESCROW_CONTRACT_POLYGON, Addr("escrow", "lower"), Addr("", "nothex")}

VerifyingEscrowAddresses ==
    {ESCROW_CONTRACT_POLYGON, Addr("escrow", "lower"), Addr("bob", "checksum"),
     Addr("escrow", "short"), Addr("", "nothex")}

ExpectedSigners ==
    {Addr("alice", "checksum"), Addr("alice", "lower"), Addr("alice", "upper"),
     Addr("alice", "noprefix"), Addr("bob", "checksum"), Addr("", "notastring")}

\* How the signature handed to the verifier is spelled: as the signer returned it, with
\* a 0x prefix, or a string that is no 65-byte hex signature, or no string.
SignatureSpellings == {"returned", "prefixed", "badhex", "short", "none"}

\* The field of the signed authorization the caller changed before verifying it
ChangedFields == {"order_id", "payer", "fee_amount", "deadline"}

AnotherOrderId ==
    HexLower(<<137, Addr("alice", "checksum"), "12345", "buy", 1000000, 6500, 17001>>)

\* The signed authorization with one field changed, the signature kept
ChangeField(signed, field) ==
    CASE field = "order_id" -> [signed EXCEPT !.order_id = AnotherOrderId]
      [] field = "payer" -> [signed EXCEPT !.payer = Addr("bob", "checksum")]
      [] field = "fee_amount" -> [signed EXCEPT !.fee_amount = @ + 1]
      [] field = "deadline" -> [signed EXCEPT !.deadline = @ + 1]

InitSignature ==
    /\ fn = "none"
    /\ \E key \in PrivateKeys, escrow \in SigningEscrowAddresses, auth \in DrawnFeeAuths,
          v_escrow \in VerifyingEscrowAddresses, v_chain \in OrderChains,
          v_expected \in ExpectedSigners, sp \in SignatureSpellings \cup ChangedFields :
         args = [private_key |-> key, escrow_address |-> escrow, chain_id |-> 137,
                 fee_auth |-> auth, v_escrow_address |-> v_escrow,
                 v_chain_id |-> v_chain, v_expected_signer |-> v_expected,
                 spelling |-> sp]
    /\ result = [signed |-> Null, ok |-> Null]
    /\ clock = 0
    /\ LibraryFrame

SignFeeAuthorization ==
    /\ fn = "none"
    /\ fn' = "sign_fee_authorization"
    /\ result' = [result EXCEPT !.signed =
                     sign_fee_authorization(args.private_key, args.escrow_address,
                                            args.fee_auth, args.chain_id)]
    /\ LibraryUnchanged

\* The SignedFeeAuthorization the caller hands to the verifier
GivenSignedAuth ==
    CASE args.spelling = "returned" /\ Returned(result.signed) -> result.signed.value
      [] args.spelling = "prefixed" /\ Returned(result.signed) ->
            [result.signed.value EXCEPT !.signature.prefix = TRUE]
      [] args.spelling \in ChangedFields /\ Returned(result.signed) ->
            ChangeField(result.signed.value, args.spelling)
      [] args.spelling \in {"short", "none"} ->
            SignedFeeAuthorization(args.fee_auth, BadSignature(args.spelling))
      [] OTHER -> SignedFeeAuthorization(args.fee_auth, BadSignature("badhex"))

VerifyFeeAuthorizationSignature ==
    /\ fn = "sign_fee_authorization"
    /\ fn' = "verify_fee_authorization_signature"
    /\ result' = [result EXCEPT !.ok =
                     verify_fee_authorization_signature(
                         GivenSignedAuth, args.v_escrow_address, args.v_chain_id,
                         args.v_expected_signer)]
    /\ LibraryUnchanged

NextSignature == SignFeeAuthorization \/ VerifyFeeAuthorizationSignature

SpecSignature == InitSignature /\ [][NextSignature]_vars

\* C1: verify_fee_authorization_signature never raises: for every signed authorization,
\* escrow address, chain id and expected signer, well-formed or malformed, the call
\* returns true or false.
C1_VerifySignatureNeverRaises ==
    fn = "verify_fee_authorization_signature" =>
        /\ Returned(result.ok)
        /\ result.ok.value \in BOOLEAN

\* What the code does do: every failure inside the try block (a malformed signature,
\* message field or expected signer) yields false, and a genuine signature verifies.
SignatureFailuresInsideTry ==
    (fn = "verify_fee_authorization_signature" /\ is_address(args.v_escrow_address)) =>
        /\ Returned(result.ok)
        /\ result.ok.value \in BOOLEAN
        /\ args.spelling \in {"badhex", "short", "none"} => result.ok.value = FALSE

SignatureVerifiedTrue ==
    /\ fn = "verify_fee_authorization_signature"
    /\ args.spelling = "prefixed"
    /\ args.v_expected_signer = Addr("alice", "lower")
    /\ result.ok = Return(TRUE)

\* The verifier was handed a signature sign_fee_authorization produced, with an escrow
\* address that is an address and an expected signer spelled with the 0x prefix
VerifiedProducedSignature ==
    /\ fn = "verify_fee_authorization_signature"
    /\ Returned(result.signed)
    /\ args.spelling \in {"returned", "prefixed"} \cup ChangedFields
    /\ is_address(args.v_escrow_address)
    /\ args.v_expected_signer.form \in {"checksum", "lower", "upper"}

\* What the verifier was given is what was signed: message fields, escrow contract and
\* chain id
SameAsSigned ==
    /\ args.spelling \notin ChangedFields
    /\ args.v_escrow_address.acct = args.escrow_address.acct
    /\ args.v_chain_id = args.chain_id

C17_WitnessChanged ==
    /\ VerifiedProducedSignature
    /\ args.spelling = "deadline"
    /\ args.v_expected_signer.acct = key_address(args.private_key).acct
    /\ result.ok = Return(FALSE)

-----------------------------------------------------------------------------
(* router/polymarket_escrow.py: values *)

\* An optional value: params.get(key) of a key that may be absent, or None
Some(v) == [some |-> TRUE, v |-> v]

NoInt == [some |-> FALSE, v |-> 0]

NoAddr == [some |-> FALSE, v |-> Addr("", "notastring")]

NoText == [some |-> FALSE, v |-> ""]

\* params.get(key, default)
GetOr(opt, default) == IF opt.some THEN opt.v ELSE default

Users == {"u1", "u2"}

\* PolymarketCredentials; NoCredentials is None (or no entry of _user_credentials)
Credentials(owner) ==
    [some |-> TRUE, api_key |-> owner, api_secret |-> owner, api_passphrase |-> owner]

NoCredentials ==
    [some |-> FALSE, api_key |-> "", api_secret |-> "", api_passphrase |-> ""]

\* A signer capability (RouterSigner): the address it answers get_address with and the
\* key it signs with; NoSigner is None.
Signer(key) == [some |-> TRUE, address |-> key_address(key), key |-> key]

NoSigner == [some |-> FALSE, address |-> Addr("", "notastring"), key |-> ""]

\* str(n) of an integer: a decimal string, and int(s) of such a string
str(n) == [dec |-> n]

int_of(s) == s.dec

\* ResolvedEscrowConfig as __init__ resolves it from config["escrow"]
ResolvedEscrowConfig(escrow_config) ==
    [fee_bps |-> GetOr(escrow_config.fee_bps, 25),
     escrow_address |-> GetOr(escrow_config.escrow_address, ESCROW_CONTRACT_POLYGON),
     chain_id |-> GetOr(escrow_config.chain_id, 137),
     affiliate |-> GetOr(escrow_config.affiliate, ZERO_ADDRESS),
     deadline_seconds |-> GetOr(escrow_config.deadline_seconds, 3600)]

NoEscrowOverrides ==
    [fee_bps |-> NoInt, escrow_address |-> NoAddr, chain_id |-> NoInt,
     affiliate |-> NoAddr, deadline_seconds |-> NoInt]

\* The configs the orchestrator is constructed with: api_key and config["escrow"]
RouterConfigs ==
    {[api_key |-> "dome-key", escrow |-> NoEscrowOverrides],
     [api_key |-> "", escrow |-> NoEscrowOverrides],
     [api_key |-> "dome-key",
      escrow |-> [NoEscrowOverrides EXCEPT !.fee_bps = Some(100),
                                           !.affiliate = Some(Addr("affiliate", "checksum"))]],
     [api_key |-> "dome-key",
      escrow |-> [NoEscrowOverrides EXCEPT !.deadline_seconds = Some(30)]]}

\* PolymarketRouterWithEscrow.__init__(config)
RouterInit(config) ==
    [constructed |-> TRUE,
     api_key |-> config.api_key,
     escrow_config |-> ResolvedEscrowConfig(config.escrow),
     user_credentials |-> [u \in Users |-> NoCredentials],
     user_safe_addresses |-> [u \in Users |-> NoAddr]]

-----------------------------------------------------------------------------
(* router/polymarket_escrow.py: place_order, its inputs *)

\* 10 shares at 0.65 for user u1, signed by an explicit signer, credentials supplied
BasePlaceOrderCall ==
    [user_id |-> "u1",
     market_id |-> "12345",
     side |-> "buy",
     size |-> 10 * SIZE_SCALE,
     price |-> 65000,
     signer |-> Signer("keyA"),
     wallet_type |-> "eoa",
     funder_address |-> NoAddr,
     privy_wallet_id |-> NoText,
     wallet_address |-> NoAddr,
     fee_bps |-> NoInt,
     affiliate |-> NoAddr,
     skip_escrow |-> FALSE,
     credentials |-> Credentials("caller")]

\* The calls made of place_order: params and the credentials argument
PlaceOrderCalls ==
    LET b == BasePlaceOrderCall
    IN  {b,
         [b EXCEPT !.credentials = NoCredentials],
         [b EXCEPT !.user_id = "u2", !.signer = Signer("keyB"),
                   !.credentials = NoCredentials],
         [b EXCEPT !.side = "sell"],
         [b EXCEPT !.price = 150000],
         [b EXCEPT !.size = 1053, !.price = 65004],
         [b EXCEPT !.signer = NoSigner, !.privy_wallet_id = Some("wallet-1"),
                   !.wallet_address = Some(Addr("bob", "lower"))],
         [b EXCEPT !.signer = NoSigner, !.privy_wallet_id = Some("wallet-1")],
         [b EXCEPT !.signer = NoSigner, !.credentials = NoCredentials],
         [b EXCEPT !.wallet_type = "safe",
                   !.funder_address = Some(Addr("bob", "checksum"))],
         [b EXCEPT !.wallet_type = "safe", !.credentials = NoCredentials],
         [b EXCEPT !.wallet_type = "safe"],
         [b EXCEPT !.fee_bps = Some(0)],
         [b EXCEPT !.fee_bps = Some(50), !.affiliate = Some(Addr("bob", "checksum"))],
         [b EXCEPT !.fee_bps = Some(-25)],
         [b EXCEPT !.skip_escrow = TRUE],
         [b EXCEPT !.skip_escrow = TRUE, !.signer = NoSigner,
                   !.credentials = NoCredentials]}

\* The calls a second, possibly concurrent, invocation is drawn from
SecondPlaceOrderCalls ==
    LET b == BasePlaceOrderCall
    IN  {b,
         [b EXCEPT !.credentials = NoCredentials],
         [b EXCEPT !.skip_escrow = TRUE]}

Runs == {"r1", "r2"}

\* A place_order invocation that was not made yet
IdleRun ==
    [pc |-> "idle", call |-> Null, calls |-> {}, outcome |-> Null,
     actual_signer |-> NoSigner, creds |-> NoCredentials,
     signer_address |-> Null, payer_address |-> Null, signature_type |-> 0,
     fee_bps |-> 0, affiliate |-> Null,
     order_size_usdc |-> 0, fee_amount |-> 0, timestamp |-> 0,
     order_id |-> Null, fee_auth |-> Null, typed_data |-> Null,
     signed_fee_auth |-> Null, signed_order |-> Null, response |-> Null,
     delegated |-> Null, base_outcome |-> Null]

-----------------------------------------------------------------------------
(* router/polymarket_escrow.py: place_order, step by step.  A step runs from one *)
(* await to the next; pc names the call the invocation is suspended in.          *)

\* The invocation ends by raising exc
Fail(run, exc) == [run EXCEPT !.pc = "done", !.outcome = exc]

\* The invocation suspends in an awaited call on a collaborator
Await(run, pc, callee) == [run EXCEPT !.pc = pc, !.calls = @ \cup {callee}]

\* self._create_privy_signer_from_wallet(privy_wallet_id, wallet_address): a signer
\* for that wallet, built without any call on it
create_privy_signer_from_wallet(privy_wallet_id, wallet_address) ==
    [some |-> TRUE, address |-> wallet_address,
     key |-> IF wallet_address.acct = "alice" THEN "keyA" ELSE "keyB"]

\* Lines 195-200: the explicit signer, or one made from the Privy wallet fields
resolve_signer(call) ==
    IF ~call.signer.some /\ call.privy_wallet_id.some /\ call.wallet_address.some
    THEN create_privy_signer_from_wallet(call.privy_wallet_id.v, call.wallet_address.v)
    ELSE call.signer

\* Line 208: credentials or self._user_credentials.get(user_id)
resolve_credentials(rt, call) ==
    IF call.credentials.some THEN call.credentials ELSE rt.user_credentials[call.user_id]

prerequisite_error_without_credentials_check(rt, call) ==
    IF rt.api_key = ""
    THEN Raise("ValueError", "Dome API key not set")
    ELSE IF ~resolve_signer(call).some
    THEN Raise("ValueError", "Either provide a signer or Privy wallet info")
    ELSE Return(TRUE)

\* Lines 175-212: the checks made before the first await
prerequisite_error(rt, call) ==
    IF rt.api_key = ""
    THEN Raise("ValueError", "Dome API key not set")
    ELSE IF ~resolve_signer(call).some
    THEN Raise("ValueError", "Either provide a signer or Privy wallet info")
    ELSE IF ~resolve_credentials(rt, call).some
    THEN Raise("ValueError", "No credentials found for user")
    ELSE Return(TRUE)

\* Lines 172-173: super().place_order(params, credentials) is awaited with the
\* arguments as they were given
delegate_to_base(run) ==
    Await([run EXCEPT !.delegated = [params_and_credentials |-> run.call]],
          "await_base_place_order", "base.place_order")

\* A variant that checks the API key before it looks at skip_escrow
place_order_begin_checking_key_first(rt, call) ==
    LET run == [IdleRun EXCEPT !.call = call]
    IN  IF rt.api_key = "" THEN Fail(run, Raise("ValueError", "Dome API key not set"))
        ELSE IF call.skip_escrow THEN delegate_to_base(run)
        ELSE LET checked == prerequisite_error(rt, call)
             IN  IF ~Returned(checked) THEN Fail(run, checked)
                 ELSE Await([run EXCEPT
                                !.actual_signer = resolve_signer(call),
                                !.creds = resolve_credentials(rt, call),
                                !.fee_bps = GetOr(call.fee_bps, rt.escrow_config.fee_bps),
                                !.affiliate = GetOr(call.affiliate, rt.escrow_config.affiliate)],
                            "await_get_address", "signer.get_address")

\* A variant that takes the configured fee_bps whatever the per-order override
place_order_begin_ignoring_fee_override(rt, call) ==
    LET run == [IdleRun EXCEPT !.call = call]
    IN  IF call.skip_escrow
        THEN delegate_to_base(run)
        ELSE LET checked == prerequisite_error(rt, call)
             IN  IF ~Returned(checked) THEN Fail(run, checked)
                 ELSE Await([run EXCEPT
                                !.actual_signer = resolve_signer(call),
                                !.creds = resolve_credentials(rt, call),
                                !.fee_bps = rt.escrow_config.fee_bps,
                                !.affiliate = GetOr(call.affiliate, rt.escrow_config.affiliate)],
                            "await_get_address", "signer.get_address")

\* Lines 171-214: from the call to the first await
place_order_begin(rt, call) ==
    LET run == [IdleRun EXCEPT !.call = call]
    IN  IF call.skip_escrow
        THEN delegate_to_base(run)
        ELSE LET checked == prerequisite_error(rt, call)
             IN  IF ~Returned(checked) THEN Fail(run, checked)
                 ELSE Await([run EXCEPT
                                !.actual_signer = resolve_signer(call),
                                !.creds = resolve_credentials(rt, call),
                                !.fee_bps = GetOr(call.fee_bps, rt.escrow_config.fee_bps),
                                !.affiliate = GetOr(call.affiliate, rt.escrow_config.affiliate)],
                            "await_get_address", "signer.get_address")

\* A variant that falls back to the signer's address for a Safe wallet without funder
resolve_payer_falling_back_to_signer(rt, call, signer_address) ==
    IF call.wallet_type = "safe"
    THEN Return([payer_address |->
                     IF call.funder_address.some THEN call.funder_address.v
                     ELSE IF rt.user_safe_addresses[call.user_id].some
                     THEN rt.user_safe_addresses[call.user_id].v
                     ELSE signer_address,
                 signature_type |-> 2])
    ELSE Return([payer_address |-> signer_address, signature_type |-> 0])

\* Lines 216-228: the payer, or the error of a Safe wallet without funder
resolve_payer(rt, call, signer_address) ==
    IF call.wallet_type = "safe"
    THEN IF ~call.funder_address.some /\ ~rt.user_safe_addresses[call.user_id].some
         THEN Raise("ValueError", "funder_address is required for Safe wallet orders")
         ELSE Return([payer_address |->
                          IF call.funder_address.some THEN call.funder_address.v
                          ELSE rt.user_safe_addresses[call.user_id].v,
                      signature_type |-> 2])
    ELSE Return([payer_address |-> signer_address, signature_type |-> 0])

\* Lines 234-246: the identifier of this placement
derive_order_id(rt, call, payer_address, order_size_usdc, timestamp) ==
    generate_order_id([chain_id |-> rt.escrow_config.chain_id,
                       user_address |-> payer_address,
                       market_id |-> call.market_id,
                       side |-> call.side,
                       size |-> order_size_usdc,
                       price |-> call.price,
                       timestamp |-> timestamp])

\* escrow/types.py, FEE_AUTHORIZATION_TYPES: the fields of the FeeAuthorization struct,
\* name and type, in the order they are hashed
FEE_AUTHORIZATION_TYPES ==
    [FeeAuthorization |-> << [name |-> "orderId", type |-> "bytes32"],
                             [name |-> "payer", type |-> "address"],
                             [name |-> "feeAmount", type |-> "uint256"],
                             [name |-> "deadline", type |-> "uint256"] >>]

\* A variant that hands the deadline over in milliseconds
typed_data_for_signer_deadline_in_ms(escrow_address, fee_auth, chain_id) ==
    LET domain == create_eip712_domain(escrow_address, chain_id)
    IN  IF ~Returned(domain) THEN domain
        ELSE Return([domain |-> domain.value,
                     types |-> FEE_AUTHORIZATION_TYPES,
                     primaryType |-> "FeeAuthorization",
                     message |-> [orderId |-> fee_auth.order_id,
                                  payer |-> fee_auth.payer,
                                  feeAmount |-> str(fee_auth.fee_amount),
                                  deadline |-> str(fee_auth.deadline * MS_PER_SECOND)]])

\* signing.py, sign_fee_authorization_with_signer up to its await: the payload handed
\* to the signer capability, feeAmount and deadline as decimal strings
typed_data_for_signer(escrow_address, fee_auth, chain_id) ==
    LET domain == create_eip712_domain(escrow_address, chain_id)
    IN  IF ~Returned(domain) THEN domain
        ELSE Return([domain |-> domain.value,
                     types |-> FEE_AUTHORIZATION_TYPES,
                     primaryType |-> "FeeAuthorization",
                     message |-> [orderId |-> fee_auth.order_id,
                                  payer |-> fee_auth.payer,
                                  feeAmount |-> str(fee_auth.fee_amount),
                                  deadline |-> str(fee_auth.deadline)]])

\* Lines 214-262: from the signer's address to the await of its signature
place_order_derive(rt, run, signer_address, time_ms) ==
    LET call == run.call
        payer == resolve_payer(rt, call, signer_address)
    IN  IF ~Returned(payer) THEN Fail([run EXCEPT !.signer_address = signer_address], payer)
        ELSE
        LET payer_address == payer.value.payer_address
            order_size_usdc == calculate_order_size_usdc(call.size, call.price)
            fee_amount == calculate_fee(order_size_usdc, run.fee_bps)
            order_id == derive_order_id(rt, call, payer_address, order_size_usdc, time_ms)
            run1 == [run EXCEPT !.signer_address = signer_address,
                                !.payer_address = payer_address,
                                !.signature_type = payer.value.signature_type,
                                !.order_size_usdc = order_size_usdc,
                                !.fee_amount = fee_amount,
                                !.timestamp = time_ms]
        IN  IF ~Returned(order_id) THEN Fail(run1, order_id)
            ELSE
            LET fee_auth == create_fee_authorization(
                                order_id.value, payer_address, fee_amount,
                                rt.escrow_config.deadline_seconds, time_ms)
                run2 == [run1 EXCEPT !.order_id = order_id.value]
            IN  IF ~Returned(fee_auth) THEN Fail(run2, fee_auth)
                ELSE
                LET typed_data == typed_data_for_signer(
                                      rt.escrow_config.escrow_address, fee_auth.value,
                                      rt.escrow_config.chain_id)
                    run3 == [run2 EXCEPT !.fee_auth = fee_auth.value]
                IN  IF ~Returned(typed_data) THEN Fail(run3, typed_data)
                    ELSE Await([run3 EXCEPT !.typed_data = typed_data.value],
                               "await_sign_typed_data", "signer.sign_typed_data")

\* The signer capability's sign_typed_data (signing.py, TypedDataSigner): it reads the
\* decimal strings back as integers and signs the EIP-712 digest with its key, or fails
\* when the payload cannot be encoded.
signer_sign_typed_data(signer, typed_data) ==
    LET message == [orderId |-> typed_data.message.orderId,
                    payer |-> typed_data.message.payer,
                    feeAmount |-> int_of(typed_data.message.feeAmount),
                    deadline |-> int_of(typed_data.message.deadline)]
        digest == eip712_digest(typed_data.domain, message)
    IN  IF ~Returned(digest) THEN Raise("SigningError", "typed data")
        ELSE Return([SignatureHex(signer.key, digest.value) EXCEPT !.prefix = TRUE])

\* signing.py 214-220 and router 264-275: the SignedFeeAuthorization is built from the
\* signature as returned, and the base order is handed to _create_and_sign_order
place_order_fee_signed(run, signature) ==
    Await([run EXCEPT !.signed_fee_auth = SignedFeeAuthorization(run.fee_auth, signature)],
          "await_create_and_sign_order", "base._create_and_sign_order")

\* PolymarketRouter._create_and_sign_order: the signed order of the venue
base_create_and_sign_order(run) ==
    [salt |-> 1,
     maker |-> run.payer_address,
     signer |-> run.signer_address,
     taker |-> ZERO_ADDRESS,
     token_id |-> run.call.market_id,
     side |-> IF run.call.side = "buy" THEN "BUY" ELSE "SELL",
     size |-> run.call.size,
     price |-> run.call.price,
     signature_type |-> run.signature_type,
     signature |-> [by |-> run.actual_signer.key]]

\* Lines 277-324: the wire request; uuid stands for str(uuid.uuid4())
build_request(run, signed_order, uuid) ==
    [id |-> uuid,
     payerAddress |-> run.payer_address,
     signerAddress |-> run.signer_address,
     signedOrder |-> signed_order,
     orderType |-> "GTC",
     credentials |-> [apiKey |-> run.creds.api_key,
                      apiSecret |-> run.creds.api_secret,
                      apiPassphrase |-> run.creds.api_passphrase],
     clientOrderId |-> uuid,
     feeAuth |-> [orderId |-> run.signed_fee_auth.order_id,
                  payer |-> run.signed_fee_auth.payer,
                  feeAmount |-> str(run.signed_fee_auth.fee_amount),
                  deadline |-> run.signed_fee_auth.deadline,
                  signature |-> run.signed_fee_auth.signature],
     affiliate |-> IF run.affiliate # ZERO_ADDRESS THEN Some(run.affiliate) ELSE NoAddr]

\* The responses of the transport: whether the body parses as JSON, its "error" member
\* (absent, a string, an object), the HTTP success flag, its "result" member (absent,
\* empty, or a payload with a status: 400, 200 or the text "live") and the payload's
\* "errorMessage" ("" when it has none)
Response(parsable, error, is_success, res, error_message) ==
    [parsable |-> parsable, error |-> error, is_success |-> is_success,
     result |-> res, error_message |-> error_message]

Responses ==
    {Response(FALSE, "absent", FALSE, "absent", ""),
     Response(TRUE, "string", FALSE, "absent", ""),
     Response(TRUE, "object", TRUE, "absent", ""),
     Response(TRUE, "absent", FALSE, "status_live", ""),
     Response(TRUE, "absent", TRUE, "empty", ""),
     Response(TRUE, "absent", TRUE, "status_400", "not enough balance"),
     Response(TRUE, "absent", TRUE, "status_400", ""),
     Response(TRUE, "absent", TRUE, "status_200", ""),
     Response(TRUE, "absent", TRUE, "status_live", "")}

\* Lines 371-375: errorMessage, or "Polymarket returned HTTP <status>"
rejection_message(response) ==
    IF response.error_message # "" THEN response.error_message
    ELSE "Polymarket returned HTTP 400"

\* An exception whose message ends with detail
RaiseWith(e, m, detail) == [exc |-> e, msg |-> m, value |-> [detail |-> detail]]

\* A variant without the check of the result's status
classify_response_returning_any_result(response) ==
    IF ~response.parsable
    THEN Raise("Exception", "Server request failed")
    ELSE IF response.error = "string"
    THEN Raise("Exception", "Server error")
    ELSE IF response.error = "object"
    THEN Raise("Exception", "Order placement failed")
    ELSE IF ~response.is_success
    THEN Raise("Exception", "Server request failed")
    ELSE IF response.result \in {"absent", "empty"}
    THEN Raise("Exception", "Server returned empty result")
    ELSE Return([result |-> response.result])

\* Lines 338-378: the outcome of place_order for a response
classify_response(response) ==
    IF ~response.parsable
    THEN Raise("Exception", "Server request failed")
    ELSE IF response.error = "string"
    THEN Raise("Exception", "Server error")
    ELSE IF response.error = "object"
    THEN Raise("Exception", "Order placement failed")
    ELSE IF ~response.is_success
    THEN Raise("Exception", "Server request failed")
    ELSE IF response.result \in {"absent", "empty"}
    THEN Raise("Exception", "Server returned empty result")
    ELSE IF response.result = "status_400"
    THEN RaiseWith("Exception", "Order rejected by Polymarket",
                   rejection_message(response))
    ELSE Return([result |-> response.result])

\* Lines 380-382: get_escrow_config returns self._escrow_config
get_escrow_config(rt) == rt.escrow_config

\* Lines 384-398: calculate_order_fee(size, price, fee_bps=None); `fee_bps or default`
\* takes the configured fee_bps when the override is None or 0
calculate_order_fee(rt, size, price, fee_bps) ==
    calculate_fee(calculate_order_size_usdc(size, price),
                  IF fee_bps.some /\ fee_bps.v # 0 THEN fee_bps.v
                  ELSE rt.escrow_config.fee_bps)

-----------------------------------------------------------------------------
(* Spec: one orchestrator, the placements made on it, the clock, link_user *)

\* The clock advances at most this many milliseconds
MaxClock == 1

\* What link_user records for a user: u1 trades from a Safe wallet, u2 from an EOA
LinkedSafeAddress(u) == IF u = "u1" THEN Some(Addr("safe1", "checksum")) ELSE NoAddr

Init ==
    /\ fn = "none"
    /\ args = Null
    /\ result = Null
    /\ clock = 0
    /\ \E config \in RouterConfigs : router = RouterInit(config)
    /\ runs = [r \in Runs |-> IdleRun]
    /\ wire = [r \in Runs |-> <<>>]

RouterFrame == UNCHANGED <<fn, args, result>>

\* One millisecond passes
Tick ==
    /\ clock < MaxClock
    /\ clock' = clock + 1
    /\ UNCHANGED <<router, runs, wire>>
    /\ RouterFrame

\* link_user of the base router: records the user's credentials and, for a Safe
\* wallet, the Safe address
LinkUser(u) ==
    /\ ~router.user_credentials[u].some
    /\ router' = [router EXCEPT
                      !.user_credentials[u] = Credentials(u),
                      !.user_safe_addresses[u] = LinkedSafeAddress(u)]
    /\ UNCHANGED <<clock, runs, wire>>
    /\ RouterFrame

\* A variant that writes the per-order fee_bps and affiliate into the resolved config
PlaceOrder_storing_overrides(r) ==
    /\ runs[r].pc = "idle"
    /\ r = "r2" => runs["r1"].pc # "idle"
    /\ \E call \in (IF r = "r1" THEN PlaceOrderCalls ELSE SecondPlaceOrderCalls) :
         /\ runs' = [runs EXCEPT ![r] = place_order_begin(router, call)]
         /\ router' = [router EXCEPT
                           !.escrow_config.fee_bps = GetOr(call.fee_bps, @),
                           !.escrow_config.affiliate = GetOr(call.affiliate, @)]
    /\ UNCHANGED <<clock, wire>>
    /\ RouterFrame

\* place_order(params, credentials) is called; invocations are named in the order
\* they are made
PlaceOrder(r) ==
    /\ runs[r].pc = "idle"
    /\ r = "r2" => runs["r1"].pc # "idle"
    /\ \E call \in (IF r = "r1" THEN PlaceOrderCalls ELSE SecondPlaceOrderCalls) :
         runs' = [runs EXCEPT ![r] = place_order_begin(router, call)]
    /\ UNCHANGED <<clock, router, wire>>
    /\ RouterFrame

\* super().place_order(params, credentials) returns or raises
BasePlaceOrderReturns(r) ==
    /\ runs[r].pc = "await_base_place_order"
    /\ \E outcome \in {Return([result |-> "base"]), Raise("Exception", "base router")} :
         runs' = [runs EXCEPT ![r] =
                     Fail([runs[r] EXCEPT !.base_outcome = outcome], outcome)]
    /\ UNCHANGED <<clock, router, wire>>
    /\ RouterFrame

\* await actual_signer.get_address() returns or raises
GetAddressReturns(r) ==
    /\ runs[r].pc = "await_get_address"
    /\ \E fails \in BOOLEAN :
         runs' = [runs EXCEPT ![r] =
                     IF fails
                     THEN Fail(runs[r], Raise("SignerError", "get_address"))
                     ELSE place_order_derive(router, runs[r],
                                             runs[r].actual_signer.address, clock)]
    /\ UNCHANGED <<clock, router, wire>>
    /\ RouterFrame

\* A variant that goes on to the base order when the signer failed
SignTypedDataReturns_ignoring_failure(r) ==
    /\ runs[r].pc = "await_sign_typed_data"
    /\ \E fails \in BOOLEAN :
         LET signature == IF fails THEN Raise("SignerError", "sign_typed_data")
                          ELSE signer_sign_typed_data(runs[r].actual_signer,
                                                      runs[r].typed_data)
         IN  runs' = [runs EXCEPT ![r] =
                         IF Returned(signature)
                         THEN place_order_fee_signed(runs[r], signature.value)
                         ELSE Await(runs[r], "await_create_and_sign_order",
                                    "base._create_and_sign_order")]
    /\ UNCHANGED <<clock, router, wire>>
    /\ RouterFrame

\* await signer.sign_typed_data(...) returns or raises
SignTypedDataReturns(r) ==
    /\ runs[r].pc = "await_sign_typed_data"
    /\ \E fails \in BOOLEAN :
         LET signature == IF fails THEN Raise("SignerError", "sign_typed_data")
                          ELSE signer_sign_typed_data(runs[r].actual_signer,
                                                      runs[r].typed_data)
         IN  runs' = [runs EXCEPT ![r] =
                         IF Returned(signature)
                         THEN place_order_fee_signed(runs[r], signature.value)
                         ELSE Fail(runs[r], signature)]
    /\ UNCHANGED <<clock, router, wire>>
    /\ RouterFrame

\* A variant that keeps the signed fee authorization and the payer in fields of the
\* orchestrator, which another placement that signed in the meantime has overwritten
CreateAndSignOrderReturns_reading_orchestrator_fields(r) ==
    /\ runs[r].pc = "await_create_and_sign_order"
    /\ \/ /\ runs' = [runs EXCEPT ![r] =
                         Fail(runs[r], Raise("Exception", "create_and_sign_order"))]
          /\ UNCHANGED wire
       \/ LET signed_order == base_create_and_sign_order(runs[r])
              other == CHOOSE o \in Runs : o # r
              kept == IF runs[other].signed_fee_auth # Null
                      THEN [runs[r] EXCEPT
                               !.signed_fee_auth = runs[other].signed_fee_auth,
                               !.payer_address = runs[other].payer_address]
                      ELSE runs[r]
          IN  /\ runs' = [runs EXCEPT ![r] =
                             Await([runs[r] EXCEPT !.signed_order = signed_order],
                                   "await_post", "transport.post")]
              /\ wire' = [wire EXCEPT ![r] =
                             Append(@, build_request(kept, signed_order, r))]
    /\ UNCHANGED <<clock, router>>
    /\ RouterFrame

\* await self._create_and_sign_order(...) returns, and the request is handed to the
\* transport; or it raises
CreateAndSignOrderReturns(r) ==
    /\ runs[r].pc = "await_create_and_sign_order"
    /\ \/ /\ runs' = [runs EXCEPT ![r] =
                         Fail(runs[r], Raise("Exception", "create_and_sign_order"))]
          /\ UNCHANGED wire
       \/ LET signed_order == base_create_and_sign_order(runs[r])
          IN  /\ runs' = [runs EXCEPT ![r] =
                             Await([runs[r] EXCEPT !.signed_order = signed_order],
                                   "await_post", "transport.post")]
              /\ wire' = [wire EXCEPT ![r] =
                             Append(@, build_request(runs[r], signed_order, r))]
    /\ UNCHANGED <<clock, router>>
    /\ RouterFrame

\* A variant that sends the request again when the transport failed
PostReturns_retrying(r) ==
    /\ runs[r].pc = "await_post"
    /\ \/ /\ Len(wire[r]) < 2
          /\ wire' = [wire EXCEPT ![r] = Append(@, wire[r][1])]
          /\ UNCHANGED runs
       \/ /\ runs' = [runs EXCEPT ![r] = Fail(runs[r], Raise("TransportError", "post"))]
          /\ UNCHANGED wire
       \/ /\ \E response \in Responses :
               runs' = [runs EXCEPT ![r] =
                           Fail([runs[r] EXCEPT !.response = response],
                                classify_response(response))]
          /\ UNCHANGED wire
    /\ UNCHANGED <<clock, router>>
    /\ RouterFrame

\* await self._http_client.post(...) returns a response, which lines 338-378 turn into
\* the outcome of place_order; or it raises, and the exception propagates
PostReturns(r) ==
    /\ runs[r].pc = "await_post"
    /\ \/ runs' = [runs EXCEPT ![r] = Fail(runs[r], Raise("TransportError", "post"))]
       \/ \E response \in Responses :
            runs' = [runs EXCEPT ![r] =
                        Fail([runs[r] EXCEPT !.response = response],
                             classify_response(response))]
    /\ UNCHANGED <<clock, router, wire>>
    /\ RouterFrame

Next ==
    \/ Tick
    \/ \E u \in Users : LinkUser(u)
    \/ \E r \in Runs :
         \/ PlaceOrder(r)
         \/ BasePlaceOrderReturns(r)
         \/ GetAddressReturns(r)
         \/ SignTypedDataReturns(r)
         \/ CreateAndSignOrderReturns(r)
         \/ PostReturns(r)

Spec == Init /\ [][Next]_vars

-----------------------------------------------------------------------------
(* Claims about place_order *)

\* The invocation derived an order identifier (line 236 returned)
HasOrderId(r) == runs[r].pc # "idle" /\ runs[r].order_id # Null

\* The invocation built a fee authorization (line 249 returned)
HasFeeAuth(r) == runs[r].pc # "idle" /\ runs[r].fee_auth # Null

\* C5: any two escrow placements made through place_order, sequential or concurrent,
\* derive different order identifiers.
C5_OrderIdsUnique ==
    \A r1, r2 \in Runs :
        (r1 # r2 /\ HasOrderId(r1) /\ HasOrderId(r2))
            => runs[r1].order_id # runs[r2].order_id

\* C8: every fee authorization place_order builds, and every one it puts in a wire
\* request, has feeAmount >= 0.
C8_FeeAmountNonNegative ==
    \A r \in Runs :
        /\ HasFeeAuth(r) => runs[r].fee_auth.fee_amount >= 0
        /\ \A i \in DOMAIN wire[r] : int_of(wire[r][i].feeAuth.feeAmount) >= 0

\* The call lacks a prerequisite of an escrow placement, in the current state of the
\* orchestrator (credentials are only ever added to the table)
LacksPrerequisite(call) ==
    /\ ~call.skip_escrow
    /\ \/ router.api_key = ""
       \/ ~call.signer.some /\ ~(call.privy_wallet_id.some /\ call.wallet_address.some)
       \/ ~call.credentials.some /\ ~router.user_credentials[call.user_id].some

PrerequisiteMessages ==
    {"Dome API key not set",
     "Either provide a signer or Privy wallet info",
     "No credentials found for user"}

FailedOnPrerequisite(r) ==
    /\ runs[r].pc = "done"
    /\ runs[r].outcome.exc = "ValueError"
    /\ runs[r].outcome.msg \in PrerequisiteMessages

\* No collaborator was called and nothing was derived, signed or sent
NothingDone(r) ==
    /\ runs[r].calls = {}
    /\ wire[r] = <<>>
    /\ runs[r].signer_address = Null
    /\ runs[r].order_id = Null
    /\ runs[r].signed_fee_auth = Null
    /\ runs[r].signed_order = Null

C9_Invariant ==
    \A r \in Runs :
        /\ (runs[r].pc # "idle" /\ LacksPrerequisite(runs[r].call))
              => FailedOnPrerequisite(r)
        /\ FailedOnPrerequisite(r) => NothingDone(r)

\* A step in which invocation r is called and ends on a missing prerequisite
FailsAtCall(r) ==
    /\ runs[r].pc = "idle"
    /\ runs'[r].pc = "done"

\* C9: a place_order call without skip_escrow that lacks a prerequisite (API key,
\* signer, credentials) ends with a ValueError with no call made on the signer, the
\* base-order signer or the transport, and with the orchestrator state, the clock and
\* the wire unchanged by the call.
C9_PrerequisiteFailureHasNoEffect ==
    /\ []C9_Invariant
    /\ [][\A r \in Runs :
            FailsAtCall(r) =>
                /\ router' = router
                /\ wire' = wire
                /\ \A o \in Runs \ {r} : runs'[o] = runs[o]]_vars

C9_Witness ==
    \E r \in Runs :
        /\ FailedOnPrerequisite(r)
        /\ runs[r].outcome.msg = "No credentials found for user"
        /\ runs[r].call.signer.some
        /\ NothingDone(r)
        /\ \E o \in Runs : runs[o].pc = "await_post"

\* The invocation was made without skip_escrow
EscrowRun(r) == runs[r].pc # "idle" /\ ~runs[r].call.skip_escrow

\* Every step before the submission succeeded: the base order was signed (line 265)
SignedBaseOrder(r) == runs[r].pc # "idle" /\ runs[r].signed_order # Null

\* The transport answered with something other than a result to return, or failed
SubmissionFailed(r) ==
    /\ runs[r].pc = "done"
    /\ SignedBaseOrder(r)
    /\ \/ runs[r].response = Null
       \/ ~runs[r].response.parsable
       \/ runs[r].response.error # "absent"
       \/ ~runs[r].response.is_success
       \/ runs[r].response.result \in {"absent", "empty", "status_400"}

OneSubmission ==
    \A r \in Runs :
        /\ Len(wire[r]) <= 1
        /\ EscrowRun(r) => (Len(wire[r]) = 1 <=> SignedBaseOrder(r))
        /\ (Len(wire[r]) = 1 <=> "transport.post" \in runs[r].calls)
        /\ ~EscrowRun(r) => wire[r] = <<>>
        /\ SubmissionFailed(r) => ~Returned(runs[r].outcome)

\* C13: a place_order run makes at most one transport call: exactly one when every
\* earlier step succeeded, none otherwise; once made, the request is never sent again,
\* whatever the transport answers, and a failed submission ends the run with the error
\* raised to the caller.
C13_NoRetry ==
    /\ []OneSubmission
    /\ [][\A r \in Runs : wire[r] # <<>> => wire'[r] = wire[r]]_vars

C13_Witness ==
    \E r \in Runs :
        /\ SubmissionFailed(r)
        /\ runs[r].outcome.exc = "TransportError"
        /\ Len(wire[r]) = 1

\* The invocation was made with skip_escrow
SkippedRun(r) == runs[r].pc # "idle" /\ runs[r].call.skip_escrow

\* No escrow step was taken: nothing derived, built, signed or sent by place_order
NoEscrowState(r) ==
    /\ runs[r].order_id = Null
    /\ runs[r].fee_auth = Null
    /\ runs[r].typed_data = Null
    /\ runs[r].signed_fee_auth = Null
    /\ runs[r].signed_order = Null
    /\ runs[r].signer_address = Null
    /\ wire[r] = <<>>

\* C14: with skip_escrow set, place_order goes straight to the base service: it hands
\* it the params and credentials it was given, takes no escrow step (no identifier, no
\* fee authorization, no signature, no wire request of its own), calls no other
\* collaborator, and ends with exactly what the base service returned or raised,
\* whether or not the API key, a signer or credentials are present.
C14_SkipEscrowDelegates ==
    \A r \in Runs :
        SkippedRun(r) =>
            /\ runs[r].calls = {"base.place_order"}
            /\ runs[r].delegated = [params_and_credentials |-> runs[r].call]
            /\ NoEscrowState(r)
            /\ runs[r].pc \in {"await_base_place_order", "done"}
            /\ runs[r].pc = "done" => /\ runs[r].base_outcome # Null
                                       /\ runs[r].outcome = runs[r].base_outcome

\* a skipped placement without API key, signer or credentials, ended by the base
\* service's exception
C14_Witness ==
    \E r \in Runs :
        /\ SkippedRun(r)
        /\ router.api_key = ""
        /\ ~runs[r].call.signer.some
        /\ runs[r].pc = "done"
        /\ runs[r].outcome = Raise("Exception", "base router")

\* The response is one place_order may return the result of
ReturnableResponse(response) ==
    /\ response # Null
    /\ response.parsable
    /\ response.error = "absent"
    /\ response.is_success
    /\ response.result \notin {"absent", "empty", "status_400"}

\* C15: an escrow placement returns only the server's result payload, and only when
\* the response parsed, had no error member, the HTTP exchange succeeded, the result is
\* non-empty and its status is no numeric code >= 400; a result with status 400 in a
\* successful envelope is never returned: the run raises "Order rejected by Polymarket"
\* with the venue's message.
C15_ReturnsOnlyAcceptedResult ==
    \A r \in Runs :
        (EscrowRun(r) /\ runs[r].pc = "done") =>
            /\ Returned(runs[r].outcome) =>
                  /\ ReturnableResponse(runs[r].response)
                  /\ runs[r].outcome.value = [result |-> runs[r].response.result]
            /\ (/\ runs[r].response # Null
                /\ runs[r].response.parsable
                /\ runs[r].response.error = "absent"
                /\ runs[r].response.is_success
                /\ runs[r].response.result = "status_400") =>
                  /\ ~Returned(runs[r].outcome)
                  /\ runs[r].outcome.msg = "Order rejected by Polymarket"
                  /\ runs[r].outcome.value.detail =
                         IF runs[r].response.error_message # ""
                         THEN runs[r].response.error_message
                         ELSE "Polymarket returned HTTP 400"

\* the venue declined inside a successful envelope, and gave its reason
C15_Witness ==
    \E r \in Runs :
        /\ EscrowRun(r) /\ runs[r].pc = "done"
        /\ runs[r].response = Response(TRUE, "absent", TRUE, "status_400", "not enough balance")
        /\ runs[r].outcome.exc = "Exception"
        /\ runs[r].outcome.value = [detail |-> "not enough balance"]
        /\ \E o \in Runs : EscrowRun(o) /\ runs[o].pc = "done" /\ Returned(runs[o].outcome)

\* The invocation ended by raising
FailedRun(r) == EscrowRun(r) /\ runs[r].pc = "done" /\ ~Returned(runs[r].outcome)

\* The kind of failure a failed escrow placement ended on: before any collaborator was
\* called ("pre-network"), the transport raising ("transport"), a response that does
\* not parse ("protocol"), a structured error object or a result with status 400
\* ("rejection"), or another one
FailureKind(r) ==
    CASE runs[r].calls = {} -> "pre-network"
      [] SignedBaseOrder(r) /\ runs[r].response = Null -> "transport"
      [] SignedBaseOrder(r) /\ ~runs[r].response.parsable -> "protocol"
      [] SignedBaseOrder(r) /\ runs[r].response.error = "object" -> "rejection"
      [] SignedBaseOrder(r) /\ runs[r].response.error = "absent"
            /\ runs[r].response.is_success
            /\ runs[r].response.result = "status_400" -> "rejection"
      [] OTHER -> "other"

\* C16: the failures of place_order are raised with classes the caller can tell apart:
\* an unparsable response, a rejection (structured error object or status >= 400), a
\* transport failure and a pre-network failure are raised with four different classes.
C16_FailureClassesDistinct ==
    \A r1, r2 \in Runs :
        (/\ FailedRun(r1) /\ FailedRun(r2)
         /\ FailureKind(r1) # "other" /\ FailureKind(r2) # "other"
         /\ FailureKind(r1) # FailureKind(r2))
            => runs[r1].outcome.exc # runs[r2].outcome.exc

\* The position of an escrow placement among its steps
StepRank(pc) ==
    CASE pc = "idle" -> 0
      [] pc = "await_get_address" -> 1
      [] pc = "await_sign_typed_data" -> 2
      [] pc = "await_create_and_sign_order" -> 3
      [] pc = "await_post" -> 4
      [] OTHER -> 5

\* What an escrow placement has done implies everything that comes before it was done
StepsInOrder(r) ==
    /\ runs[r].response # Null => wire[r] # <<>>
    /\ wire[r] # <<>> => runs[r].signed_order # Null
    /\ runs[r].signed_order # Null => runs[r].signed_fee_auth # Null
    /\ runs[r].signed_fee_auth # Null => runs[r].fee_auth # Null
    /\ runs[r].fee_auth # Null => runs[r].order_id # Null
    /\ runs[r].order_id # Null =>
          /\ Returned(prerequisite_error(router, runs[r].call))
          /\ runs[r].payer_address # Null
    /\ "transport.post" \in runs[r].calls =>
          "base._create_and_sign_order" \in runs[r].calls
    /\ "base._create_and_sign_order" \in runs[r].calls =>
          "signer.sign_typed_data" \in runs[r].calls
    /\ "signer.sign_typed_data" \in runs[r].calls =>
          "signer.get_address" \in runs[r].calls
    /\ StepRank(runs[r].pc) >= 2 /\ runs[r].pc # "done" => runs[r].order_id # Null
    /\ StepRank(runs[r].pc) >= 3 /\ runs[r].pc # "done" => runs[r].signed_fee_auth # Null
    /\ StepRank(runs[r].pc) >= 4 /\ runs[r].pc # "done" => wire[r] # <<>>
    /\ (runs[r].pc = "done" /\ Returned(runs[r].outcome)) => runs[r].response # Null

\* A step of placement r goes to the next step or ends the run, and a run that ended
\* does nothing more
StepsAdvanceByOne(r) ==
    /\ runs'[r].pc # runs[r].pc =>
          \/ runs'[r].pc = "done"
          \/ StepRank(runs'[r].pc) = StepRank(runs[r].pc) + 1
    /\ runs[r].pc = "done" => (runs'[r] = runs[r] /\ wire'[r] = wire[r])

\* C19: in an escrow placement the steps happen in the order validation, identifier
\* derivation, fee-authorization signing, base-order signing, submission, response
\* classification, none skipped; a failure at a step ends the run and no later step is
\* executed, so nothing is submitted.
C19_StepOrder ==
    /\ [](\A r \in Runs : EscrowRun(r) => StepsInOrder(r))
    /\ [][\A r \in Runs : (runs[r].pc = "idle" \/ EscrowRun(r)) =>
                               (runs'[r].pc # "idle" /\ runs'[r].call.skip_escrow)
                               \/ StepsAdvanceByOne(r)]_vars

\* one placement ended when the signer refused the fee authorization, with nothing
\* submitted; the other was submitted and returned the result
C19_Witness ==
    \E r, o \in Runs :
        /\ FailedRun(r)
        /\ runs[r].outcome.exc = "SignerError"
        /\ runs[r].order_id # Null
        /\ runs[r].signed_order = Null
        /\ wire[r] = <<>>
        /\ EscrowRun(o) /\ runs[o].pc = "done" /\ Returned(runs[o].outcome)

\* The placement is for a Safe wallet and ended on the missing funder address
FailedOnMissingFunder(r) ==
    /\ FailedRun(r)
    /\ runs[r].call.wallet_type = "safe"
    /\ runs[r].outcome = Raise("ValueError",
                               "funder_address is required for Safe wallet orders")

\* C20: a placement for a Safe wallet with neither an explicit funder address nor a
\* recorded one fails before any awaited call: when the error is raised, nothing was
\* called on the signer (address lookup, signing), the base-order signer or the
\* transport.
C20_MissingFunderFailsBeforeAnyCall ==
    \A r \in Runs :
        FailedOnMissingFunder(r) =>
            /\ runs[r].calls = {}
            /\ runs[r].signer_address = Null
            /\ wire[r] = <<>>

\* The invocation got the signer's address and resolved, or failed to resolve, the payer
PastAddressLookup(r) == EscrowRun(r) /\ runs[r].signer_address # Null

\* The funder of a Safe placement: the explicit one, otherwise the one recorded for
\* the user (the table only ever gains entries)
FunderOf(call) ==
    IF call.funder_address.some THEN call.funder_address
    ELSE router.user_safe_addresses[call.user_id]

\* The payer the claim names for the placement
ClaimedPayer(r) ==
    IF runs[r].call.wallet_type = "safe" THEN FunderOf(runs[r].call).v
    ELSE runs[r].actual_signer.address

PayerUsedEverywhere(r) ==
    LET payer == ClaimedPayer(r)
    IN  /\ runs[r].payer_address = payer
        /\ runs[r].signer_address = runs[r].actual_signer.address
        /\ runs[r].call.wallet_type = "safe" =>
              (payer = runs[r].signer_address =>
                   runs[r].call.funder_address = Some(runs[r].signer_address))
        /\ HasOrderId(r) => runs[r].order_id.digest[2] = to_checksum_address(payer)
        /\ HasFeeAuth(r) => runs[r].fee_auth.payer = to_checksum_address(payer)
        /\ \A i \in DOMAIN wire[r] :
              /\ wire[r][i].payerAddress = payer
              /\ wire[r][i].feeAuth.payer = to_checksum_address(payer)
              /\ wire[r][i].signedOrder.maker = payer

\* C21: for an EOA wallet the payer used for the identifier, the fee authorization and
\* the wire request is the signer's own address; for a Safe wallet it is the explicit
\* funder address when given, otherwise the funder recorded for the user, and the
\* signer's address is never taken in its place; with neither funder the call fails and
\* nothing is signed or submitted.
C21_PayerResolution ==
    \A r \in Runs :
        PastAddressLookup(r) =>
            IF runs[r].call.wallet_type = "safe" /\ ~FunderOf(runs[r].call).some
            THEN /\ FailedOnMissingFunder(r)
                 /\ runs[r].payer_address = Null
                 /\ runs[r].order_id = Null
                 /\ runs[r].signed_fee_auth = Null
                 /\ runs[r].signed_order = Null
                 /\ runs[r].calls = {"signer.get_address"}
                 /\ wire[r] = <<>>
            ELSE FailedOnMissingFunder(r) \/ PayerUsedEverywhere(r)

\* a Safe placement without explicit funder was submitted with the recorded funder as
\* payer, the signer being another account
C21_Witness ==
    \E r \in Runs :
        /\ PastAddressLookup(r)
        /\ runs[r].call.wallet_type = "safe"
        /\ ~runs[r].call.funder_address.some
        /\ wire[r] # <<>>
        /\ wire[r][1].payerAddress = Addr("safe1", "checksum")
        /\ wire[r][1].signerAddress = Addr("alice", "checksum")

\* The fee_bps in effect for a call: the per-order override when given, the configured
\* value otherwise
EffectiveFeeBps(call) ==
    IF call.fee_bps.some THEN call.fee_bps.v ELSE router.escrow_config.fee_bps

\* fee is the floor of order_size * fee_bps / 10000
IsFloorFee(fee, order_size, fee_bps) ==
    /\ fee * 10000 <= order_size * fee_bps
    /\ order_size * fee_bps < (fee + 1) * 10000

\* The fee authorization of a wire request is that of the placement that sent it
FeeAuthBoundToOrder(r, request) ==
    LET call == runs[r].call
        cfg == router.escrow_config
        order_size == calculate_order_size_usdc(call.size, call.price)
        identifier == generate_order_id([chain_id |-> cfg.chain_id,
                                         user_address |-> request.payerAddress,
                                         market_id |-> call.market_id,
                                         side |-> call.side,
                                         size |-> order_size,
                                         price |-> call.price,
                                         timestamp |-> runs[r].timestamp])
        domain == create_eip712_domain(cfg.escrow_address, cfg.chain_id)
        signed == [orderId |-> request.feeAuth.orderId,
                   payer |-> request.feeAuth.payer,
                   feeAmount |-> int_of(request.feeAuth.feeAmount),
                   deadline |-> request.feeAuth.deadline]
    IN  /\ Returned(identifier)
        /\ request.feeAuth.orderId = identifier.value
        /\ request.feeAuth.payer = to_checksum_address(request.payerAddress)
        /\ IsFloorFee(int_of(request.feeAuth.feeAmount), order_size, EffectiveFeeBps(call))
        /\ request.feeAuth.feeAmount = str(int_of(request.feeAuth.feeAmount))
        /\ request.feeAuth.deadline = runs[r].fee_auth.deadline
        /\ request.feeAuth.deadline =
              unix_seconds(runs[r].timestamp) + cfg.deadline_seconds
        /\ request.feeAuth.signature = runs[r].signed_fee_auth.signature
        /\ request.feeAuth.signature.kind = "sig"
        /\ request.feeAuth.signature.key = runs[r].actual_signer.key
        /\ Returned(domain)
        /\ Return(request.feeAuth.signature.digest) = eip712_digest(domain.value, signed)

\* C22: in every wire request place_order submits, feeAuth.orderId is the identifier
\* derived from this placement's chain id, payer, market, side, order size, price and
\* timestamp; feeAuth.payer is the account of payerAddress; feeAuth.feeAmount is the
\* decimal string of floor(order size * effective fee_bps / 10000), the per-order
\* override being in effect when given; feeAuth.deadline and feeAuth.signature are
\* those of the authorization that was signed.
C22_FeeAuthBoundToOrder ==
    \A r \in Runs :
        \A i \in DOMAIN wire[r] : FeeAuthBoundToOrder(r, wire[r][i])

\* a request with a per-order fee_bps of 50 on 6.5 USDC: feeAmount "32500"
C22_Witness ==
    \E r \in Runs :
        /\ wire[r] # <<>>
        /\ runs[r].call.fee_bps = Some(50)
        /\ router.escrow_config.fee_bps = 100
        /\ wire[r][1].feeAuth.feeAmount = str(32500)
        /\ wire[r][1].feeAuth.deadline = 3600

\* The credentials of a placement: those given with the call, otherwise those recorded
\* for the user when the call was made (the table only ever gains entries)
OwnCredentials(r) ==
    IF runs[r].call.credentials.some THEN runs[r].call.credentials
    ELSE Credentials(runs[r].call.user_id)

\* The affiliate of a placement: the per-order one when given, the configured one
\* otherwise, left out of the request when it is the zero address
OwnAffiliate(r) ==
    LET affiliate == GetOr(runs[r].call.affiliate, router.escrow_config.affiliate)
    IN  IF affiliate # ZERO_ADDRESS THEN Some(affiliate) ELSE NoAddr

\* The request carries what was computed from the call of the placement that sent it
CarriesOwnValues(r, request) ==
    LET call == runs[r].call
    IN  /\ request.id = r
        /\ request.clientOrderId = r
        /\ request.payerAddress = ClaimedPayer(r)
        /\ request.payerAddress = runs[r].payer_address
        /\ request.signerAddress = runs[r].actual_signer.address
        /\ FeeAuthBoundToOrder(r, request)
        /\ request.feeAuth.orderId = runs[r].order_id
        /\ request.feeAuth.feeAmount = str(runs[r].fee_amount)
        /\ request.signedOrder = runs[r].signed_order
        /\ request.signedOrder.maker = request.payerAddress
        /\ request.signedOrder.signer = request.signerAddress
        /\ request.signedOrder.token_id = call.market_id
        /\ request.signedOrder.size = call.size
        /\ request.signedOrder.price = call.price
        /\ request.affiliate = OwnAffiliate(r)
        /\ request.credentials = [apiKey |-> OwnCredentials(r).api_key,
                                  apiSecret |-> OwnCredentials(r).api_secret,
                                  apiPassphrase |-> OwnCredentials(r).api_passphrase]

\* A step of one placement leaves the other placement's locals and request alone, and
\* leaves the orchestrator, its per-user tables included, as it was
StepsAreIsolated ==
    \A r \in Runs :
        (runs'[r] # runs[r] \/ wire'[r] # wire[r]) =>
            /\ \A o \in Runs \ {r} : runs'[o] = runs[o] /\ wire'[o] = wire[o]
            /\ router' = router

\* C24: when place_order runs on one orchestrator interleave at their awaits, every
\* wire request carries the payer, order identifier, fee amount, fee-authorization
\* signature, signed base order, affiliate and credentials computed from the call of
\* the placement that sent it; a step of one placement changes neither the other
\* placement's values nor its request, and no step of place_order writes the per-user
\* credential and funder tables.
C24_PlacementsIsolated ==
    /\ [](\A r \in Runs : \A i \in DOMAIN wire[r] : CarriesOwnValues(r, wire[r][i]))
    /\ [][StepsAreIsolated]_vars

\* both placements wait for the transport, the second having passed the address lookup
\* before the first; their requests differ in order identifier, fee amount, signature,
\* affiliate and credentials
C24_Witness ==
    /\ runs["r1"].pc = "await_post"
    /\ runs["r2"].pc = "await_post"
    /\ runs["r2"].timestamp < runs["r1"].timestamp
    /\ wire["r1"][1].feeAuth.orderId # wire["r2"][1].feeAuth.orderId
    /\ wire["r1"][1].feeAuth.feeAmount # wire["r2"][1].feeAuth.feeAmount
    /\ wire["r1"][1].feeAuth.signature # wire["r2"][1].feeAuth.signature
    /\ wire["r1"][1].affiliate # wire["r2"][1].affiliate
    /\ wire["r1"][1].credentials # wire["r2"][1].credentials

-----------------------------------------------------------------------------
(* SpecPreview: one orchestrator and one placement on it, with the orchestrator's *)
(* synchronous methods calculate_order_fee and get_escrow_config called at any    *)
(* point; fn, args and result hold the last such call.                            *)

PreviewSizes == {10 * SIZE_SCALE, 1053}

PreviewPrices == {65000, 65004}

PreviewFeeOverrides == {NoInt, Some(0), Some(50), Some(-25)}

CalculateOrderFee ==
    /\ \E size \in PreviewSizes, price \in PreviewPrices, fee_bps \in PreviewFeeOverrides :
         /\ args' = [size |-> size, price |-> price, fee_bps |-> fee_bps]
         /\ result' = Return(calculate_order_fee(router, size, price, fee_bps))
    /\ fn' = "calculate_order_fee"
    /\ UNCHANGED <<clock, router, runs, wire>>

GetEscrowConfig ==
    /\ fn' = "get_escrow_config"
    /\ args' = Null
    /\ result' = Return(get_escrow_config(router))
    /\ UNCHANGED <<clock, router, runs, wire>>

NextPreview ==
    \/ Tick
    \/ \E u \in Users : LinkUser(u)
    \/ PlaceOrder("r1")
    \/ BasePlaceOrderReturns("r1")
    \/ GetAddressReturns("r1")
    \/ SignTypedDataReturns("r1")
    \/ CreateAndSignOrderReturns("r1")
    \/ PostReturns("r1")
    \/ CalculateOrderFee
    \/ GetEscrowConfig

SpecPreview == Init /\ [][NextPreview]_vars

\* The last calculate_order_fee call had the size, price and per-order fee_bps of
\* placement r, the override being absent, zero or positive
PreviewOfPlacement(r) ==
    /\ fn = "calculate_order_fee"
    /\ HasFeeAuth(r)
    /\ args.size = runs[r].call.size
    /\ args.price = runs[r].call.price
    /\ args.fee_bps = runs[r].call.fee_bps
    /\ args.fee_bps.some => args.fee_bps.v >= 0

PreviewEqualsPlacement ==
    \A r \in Runs :
        PreviewOfPlacement(r) =>
            /\ result.value = runs[r].fee_auth.fee_amount
            /\ \A i \in DOMAIN wire[r] : str(result.value) = wire[r][i].feeAuth.feeAmount

\* A step that is a call of calculate_order_fee
IsCalculateOrderFee == fn' = "calculate_order_fee" /\ <<args', result'>> # <<args, result>>

\* C12: calculate_order_fee(size, price, override) equals the feeAmount place_order puts
\* in the fee authorization for the same size, price and per-order fee_bps (absent, zero
\* or positive), and a call of it makes no external call and changes no orchestrator
\* state.
C12_PreviewIsPlacementFee ==
    /\ []PreviewEqualsPlacement
    /\ [][IsCalculateOrderFee => UNCHANGED <<clock, router, runs, wire>>]_vars

\* The five fields are the overrides of one of the constructor configs, a field without
\* override having its default
ConfigIsOverridesOnDefaults ==
    \E config \in RouterConfigs :
        LET given == config.escrow
            cfg == router.escrow_config
        IN  /\ router.api_key = config.api_key
            /\ cfg.fee_bps = IF given.fee_bps.some THEN given.fee_bps.v ELSE 25
            /\ cfg.escrow_address = IF given.escrow_address.some
                                     THEN given.escrow_address.v
                                     ELSE ESCROW_CONTRACT_POLYGON
            /\ cfg.chain_id = IF given.chain_id.some THEN given.chain_id.v ELSE 137
            /\ cfg.affiliate = IF given.affiliate.some THEN given.affiliate.v
                                ELSE ZERO_ADDRESS
            /\ cfg.deadline_seconds = IF given.deadline_seconds.some
                                       THEN given.deadline_seconds.v ELSE 3600

ConfigAsConstructed ==
    /\ DOMAIN router.escrow_config =
          {"fee_bps", "escrow_address", "chain_id", "affiliate", "deadline_seconds"}
    /\ ConfigIsOverridesOnDefaults
    /\ fn = "get_escrow_config" => result = Return(router.escrow_config)

\* C18: the resolved escrow config is the constructor's overrides layered on the
\* defaults 25 / default escrow contract / 137 / zero address / 3600, and no step of
\* place_order (per-order fee_bps and affiliate overrides included), calculate_order_fee
\* or get_escrow_config changes any of its five fields.
C18_ConfigImmutable ==
    /\ []ConfigAsConstructed
    /\ [][router'.escrow_config = router.escrow_config]_vars

\* a placement with per-order fee_bps 50 and an affiliate was submitted, and
\* get_escrow_config still answers the defaults
C18_Witness ==
    /\ fn = "get_escrow_config"
    /\ result.value.fee_bps = 25
    /\ result.value.affiliate = ZERO_ADDRESS
    /\ result.value.deadline_seconds = 3600
    /\ runs["r1"].pc = "done"
    /\ runs["r1"].call.fee_bps = Some(50)
    /\ wire["r1"] # <<>>
    /\ wire["r1"][1].affiliate = Some(Addr("bob", "checksum"))

-----------------------------------------------------------------------------
(* SpecSigner: sign_fee_authorization_with_signer with a signer capability,   *)
(* then verify_fee_authorization_signature on what it returned                *)

\* The EIP712Domain entry of the "types" of the structures built in process
EIP712_DOMAIN_TYPE ==
    << [name |-> "name", type |-> "string"],
       [name |-> "version", type |-> "string"],
       [name |-> "chainId", type |-> "uint256"],
       [name |-> "verifyingContract", type |-> "address"] >>

\* signing.py 117-139: the structure sign_fee_authorization builds and signs, feeAmount
\* and deadline as integers
typed_data_of_signing(escrow_address, fee_auth, chain_id) ==
    LET domain == create_eip712_domain(escrow_address, chain_id)
    IN  IF ~Returned(domain) THEN domain
        ELSE Return([types |-> [EIP712Domain |-> EIP712_DOMAIN_TYPE,
                                FeeAuthorization |->
                                    FEE_AUTHORIZATION_TYPES.FeeAuthorization],
                     primaryType |-> "FeeAuthorization",
                     domain |-> domain.value,
                     message |-> [orderId |-> fee_auth.order_id,
                                  payer |-> fee_auth.payer,
                                  feeAmount |-> fee_auth.fee_amount,
                                  deadline |-> fee_auth.deadline]])

\* signing.py 245-265: the structure verify_fee_authorization_signature rebuilds from
\* the signed authorization
typed_data_of_verifying(signed_auth, escrow_address, chain_id) ==
    LET domain == create_eip712_domain(escrow_address, chain_id)
    IN  IF ~Returned(domain) THEN domain
        ELSE Return([types |-> [EIP712Domain |-> EIP712_DOMAIN_TYPE,
                                FeeAuthorization |->
                                    FEE_AUTHORIZATION_TYPES.FeeAuthorization],
                     primaryType |-> "FeeAuthorization",
                     domain |-> domain.value,
                     message |-> [orderId |-> signed_auth.order_id,
                                  payer |-> signed_auth.payer,
                                  feeAmount |-> signed_auth.fee_amount,
                                  deadline |-> signed_auth.deadline]])

\* What the capability does with the payload: it signs it with its key and returns the
\* hex with or without the 0x prefix, returns a string that is no signature, or raises
SignerBehaviours == {"signs", "signs_unprefixed", "returns_text", "raises"}

capability_sign_typed_data(private_key, behaviour, typed_data) ==
    LET signed == signer_sign_typed_data([key |-> private_key], typed_data)
    IN  CASE behaviour = "raises" -> Raise("SignerError", "sign_typed_data")
          [] behaviour = "returns_text" -> Return(BadSignature("badhex"))
          [] behaviour = "signs_unprefixed" /\ Returned(signed) ->
                Return([signed.value EXCEPT !.prefix = FALSE])
          [] OTHER -> signed

InitSigner ==
    /\ fn = "none"
    /\ \E key \in PrivateKeys, b \in SignerBehaviours, escrow \in SigningEscrowAddresses,
          chain \in OrderChains, auth \in DrawnFeeAuths :
         args = [private_key |-> key, behaviour |-> b, escrow_address |-> escrow,
                 chain_id |-> chain, fee_auth |-> auth]
    /\ result = [typed_data |-> Null, signature |-> Null, signed |-> Null, ok |-> Null]
    /\ clock = 0
    /\ LibraryFrame

\* sign_fee_authorization_with_signer up to "await signer.sign_typed_data(...)"; a
\* failure of create_eip712_domain ends the call
HandTypedDataToSigner ==
    /\ fn = "none"
    /\ LET typed_data == typed_data_for_signer(args.escrow_address, args.fee_auth,
                                               args.chain_id)
       IN  IF Returned(typed_data)
           THEN /\ fn' = "await_sign_typed_data"
                /\ result' = [result EXCEPT !.typed_data = typed_data]
           ELSE /\ fn' = "sign_fee_authorization_with_signer"
                /\ result' = [result EXCEPT !.typed_data = typed_data,
                                            !.signed = typed_data]
    /\ LibraryUnchanged

\* The capability returns or raises, and sign_fee_authorization_with_signer returns the
\* SignedFeeAuthorization or lets the exception through
SignerReturns ==
    /\ fn = "await_sign_typed_data"
    /\ fn' = "sign_fee_authorization_with_signer"
    /\ LET signature == capability_sign_typed_data(args.private_key, args.behaviour,
                                                   result.typed_data.value)
       IN  result' = [result EXCEPT
                         !.signature = signature,
                         !.signed = IF Returned(signature)
                                    THEN Return(SignedFeeAuthorization(args.fee_auth,
                                                                       signature.value))
                                    ELSE signature]
    /\ LibraryUnchanged

\* The receiving party verifies what was returned against the capability's address
VerifySignedBySigner ==
    /\ fn = "sign_fee_authorization_with_signer"
    /\ Returned(result.signed)
    /\ fn' = "verify_fee_authorization_signature"
    /\ result' = [result EXCEPT !.ok =
                     verify_fee_authorization_signature(
                         result.signed.value, args.escrow_address, args.chain_id,
                         key_address(args.private_key))]
    /\ LibraryUnchanged

NextSigner == HandTypedDataToSigner \/ SignerReturns \/ VerifySignedBySigner

SpecSigner == InitSigner /\ [][NextSigner]_vars

\* The structure sign_fee_authorization signs for the drawn inputs
SignedInProcess ==
    typed_data_of_signing(args.escrow_address, args.fee_auth, args.chain_id)

\* The structure the verifier rebuilds from an authorization with the drawn fields
RebuiltByVerifier ==
    typed_data_of_verifying(SignedFeeAuthorization(args.fee_auth, BadSignature("none")),
                            args.escrow_address, args.chain_id)

\* The payload denotes the structure: domain, primary type, field schema in order,
\* orderId and payer as they are, feeAmount and deadline the decimal strings of the
\* same integers
DenotesSame(handed, built) ==
    /\ handed.domain = built.domain
    /\ handed.primaryType = built.primaryType
    /\ handed.types.FeeAuthorization = built.types.FeeAuthorization
    /\ handed.message.orderId = built.message.orderId
    /\ handed.message.payer = built.message.payer
    /\ handed.message.feeAmount = str(built.message.feeAmount)
    /\ handed.message.deadline = str(built.message.deadline)
    /\ int_of(handed.message.feeAmount) = built.message.feeAmount
    /\ int_of(handed.message.deadline) = built.message.deadline

\* The capability signed the payload it was handed
CapabilitySigned ==
    /\ fn \in {"sign_fee_authorization_with_signer", "verify_fee_authorization_signature"}
    /\ args.behaviour \in {"signs", "signs_unprefixed"}
    /\ Returned(result.typed_data)
    /\ Returned(result.signature)

\* C23: for the same escrow address, chain id and FeeAuthorization, the payload handed
\* to the signer capability denotes the domain, primary type, field schema and values of
\* the structure sign_fee_authorization signs and of the one the verifier rebuilds
\* (feeAmount and deadline as decimal strings of the same integers), and fails as they
\* do when the escrow address is malformed; the SignedFeeAuthorization returned carries
\* the input's four fields and the capability's signature as returned; a signature the
\* capability made over the payload is over the digest the private-key path signs, and
\* verifies as that one does.
C23_SameTypedData ==
    /\ fn # "none" =>
         /\ Returned(result.typed_data) <=> Returned(SignedInProcess)
         /\ ~Returned(result.typed_data) =>
               /\ result.typed_data = SignedInProcess
               /\ result.signed = result.typed_data
         /\ Returned(result.typed_data) =>
               /\ DenotesSame(result.typed_data.value, SignedInProcess.value)
               /\ DenotesSame(result.typed_data.value, RebuiltByVerifier.value)
    /\ fn \in {"sign_fee_authorization_with_signer", "verify_fee_authorization_signature"}
       /\ Returned(result.typed_data) =>
         IF Returned(result.signature)
         THEN result.signed =
                  Return([order_id |-> args.fee_auth.order_id,
                          payer |-> args.fee_auth.payer,
                          fee_amount |-> args.fee_auth.fee_amount,
                          deadline |-> args.fee_auth.deadline,
                          signature |-> result.signature.value])
         ELSE result.signed = result.signature
    /\ CapabilitySigned =>
         LET in_process == sign_fee_authorization(args.private_key, args.escrow_address,
                                                  args.fee_auth, args.chain_id)
         IN  /\ Returned(in_process)
             /\ result.signature.value.key = in_process.value.signature.key
             /\ result.signature.value.digest = in_process.value.signature.digest
             /\ fn = "verify_fee_authorization_signature" =>
                   /\ result.ok = Return(TRUE)
                   /\ result.ok = verify_fee_authorization_signature(
                                      in_process.value, args.escrow_address,
                                      args.chain_id, key_address(args.private_key))

\* The capability signed a payload with string feeAmount and deadline, the signed
\* authorization came back with the input's fields, and the verifier accepted it
C23_Witness ==
    /\ fn = "verify_fee_authorization_signature"
    /\ args.behaviour = "signs"
    /\ result.typed_data.value.message.feeAmount = str(2500)
    /\ result.signed.value.fee_amount = 2500
    /\ result.signed.value.signature.prefix
    /\ result.ok = Return(TRUE)

=============================================================================
